---------------------------- MODULE Spec2Model ----------------------------
(***************************************************************************)
(* A model of mcumgr-client: the SMP header codecs, the sequence           *)
(* allocator, the serial framer and transports, and the service adapters.  *)
(* Bytes are the integers 0..255, byte strings are sequences of bytes.     *)
(***************************************************************************)
EXTENDS Integers, Sequences, FiniteSets, TLC

VARIABLES
    COUNTER,      \* transfer.rs next_seq_id: the lazy static AtomicU8 (-1: not yet initialised)
    tpc,          \* position of each thread that calls next_seq_id
    allocs,       \* the values next_seq_id returned, in the order of the atomic operations
    codec,        \* header codec under test: the header, its wire bytes and the decoded header
    pc,           \* position of the serial transceive call
    req,          \* the request of the call: op, group, id, body, seq, linelength, header, wire bytes,
                  \* and the number of input bytes that were pending when the call started
    rx,           \* serial port: the bytes waiting in the input buffer
    tx,           \* serial port: the bytes written and not yet taken by the device
    result,       \* transceive: the base64 text accumulated so far
    bytes_read,   \* transceive: number of payload bytes read
    expected_len, \* transceive: the declared length once known, else 0
    ret,          \* what the call returned: Ok(header, body), an error, or a panic
    calls,        \* number of transceive calls started
    wire,         \* the bytes the device sent in answer to the current call
    adapter,      \* service adapter call: the adapter, the response it got, its outcome
    xfer,         \* file transfer: the transport's timeout, the loop of upload or download, the device's file
    enc,          \* encode_request: its length fields, and the loop that splits the base64 text into lines
    last_err,     \* the error of the transceive call that returned last (empty text for Ok or none)
    udp           \* UdpTransport: its seq counter, the call in progress, the datagrams waiting in the socket

seqVars    == <<COUNTER, tpc, allocs>>
codecVars  == <<codec>>
loopVars   == <<result, bytes_read, expected_len>>
serialVars == <<pc, req, rx, tx, result, bytes_read, expected_len, ret, calls, wire>>
adapterVars == <<adapter>>
fsVars     == <<xfer>>
encVars    == <<enc>>
histVars   == <<last_err>>
udpVars    == <<udp>>
vars       == <<COUNTER, tpc, allocs, codec,
                pc, req, rx, tx, result, bytes_read, expected_len, ret, calls, wire,
                adapter, xfer, enc, last_err, udp>>

\* what each component leaves alone
notSeq     == <<codecVars, serialVars, adapterVars, fsVars, encVars, histVars, udpVars>>
notCodec   == <<seqVars, serialVars, adapterVars, fsVars, encVars, histVars, udpVars>>
notSerial  == <<tpc, codecVars, adapterVars, fsVars, encVars, udpVars>>
notAdapter == <<seqVars, codecVars, serialVars, fsVars, encVars, histVars, udpVars>>
notFs      == <<seqVars, codecVars, serialVars, adapterVars, encVars, histVars, udpVars>>
notEnc     == <<seqVars, codecVars, serialVars, adapterVars, fsVars, histVars, udpVars>>
notUdp     == <<seqVars, codecVars, serialVars, adapterVars, fsVars, encVars>>

(***************************************************************************)
(* Integer helpers: fixed-width arithmetic.                                *)
(***************************************************************************)
U8(n)  == n % 256
U16(n) == n % 65536

RECURSIVE XorBits(_, _, _)
XorBits(a, b, w) ==
    IF w = 0 THEN 0
    ELSE (IF (a % 2) = (b % 2) THEN 0 ELSE 1) + 2 * XorBits(a \div 2, b \div 2, w - 1)

\* exclusive or by four-bit digits, from a table of the digit results
Xor4 == [a \in 0..15 |-> [b \in 0..15 |-> XorBits(a, b, 4)]]
Xor8(a, b)  == 16 * Xor4[a \div 16][b \div 16] + Xor4[a % 16][b % 16]
Xor16(a, b) == 256 * Xor8(a \div 256, b \div 256) + Xor8(a % 256, b % 256)

Min(a, b) == IF a < b THEN a ELSE b

SubSeqFrom(s, from) == SubSeq(s, from, Len(s))

(***************************************************************************)
(* byteorder: big-endian 16-bit values.                                    *)
(***************************************************************************)
WriteU16BE(n) == << (n \div 256) % 256, n % 256 >>
ReadU16BE(bs) == bs[1] * 256 + bs[2]

(***************************************************************************)
(* crc16::State::<XMODEM>::calculate: polynomial 0x1021, initial value 0,  *)
(* no reflection, no final xor.                                            *)
(***************************************************************************)
CrcPoly == 4129

RECURSIVE CrcShift(_, _)
CrcShift(crc, n) ==
    IF n = 0 THEN crc
    ELSE CrcShift(IF crc >= 32768
                  THEN Xor16(U16(crc * 2), CrcPoly)
                  ELSE U16(crc * 2), n - 1)

\* the crate's lookup table: the CRC of each single byte
CrcTable == [b \in 0..255 |-> CrcShift(b * 256, 8)]

\* one byte: crc = (crc << 8) ^ table[(crc >> 8) ^ byte]
CrcByte(crc, b) == Xor16(U16(crc * 256), CrcTable[Xor8(crc \div 256, b)])

\* a CRC is never negative: the test only makes the running value a number
\* before the next byte is taken
RECURSIVE CrcFrom(_, _, _)
CrcFrom(crc, bs, i) ==
    IF i > Len(bs) \/ crc < 0 THEN crc ELSE CrcFrom(CrcByte(crc, bs[i]), bs, i + 1)

Crc16Xmodem(bs) == CrcFrom(0, bs, 1)

(***************************************************************************)
(* base64::engine::general_purpose::STANDARD.  The standard alphabet, '='  *)
(* padding on encode; on decode the padding must be canonical and the      *)
(* unused bits of the last symbol must be zero.                            *)
(***************************************************************************)
PadChar == 61

B64Char(v) ==
    IF v < 26 THEN 65 + v
    ELSE IF v < 52 THEN 97 + (v - 26)
    ELSE IF v < 62 THEN 48 + (v - 52)
    ELSE IF v = 62 THEN 43 ELSE 47

\* the six-bit value of a symbol, -1 for a byte outside the alphabet
B64Val(c) ==
    IF c >= 65 /\ c <= 90 THEN c - 65
    ELSE IF c >= 97 /\ c <= 122 THEN c - 97 + 26
    ELSE IF c >= 48 /\ c <= 57 THEN c - 48 + 52
    ELSE IF c = 43 THEN 62
    ELSE IF c = 47 THEN 63 ELSE -1

RECURSIVE B64EncodeFrom(_, _)
B64EncodeFrom(bs, i) ==
    LET n == Len(bs) - i + 1 IN
    IF n <= 0 THEN << >>
    ELSE IF n = 1 THEN
        << B64Char(bs[i] \div 4), B64Char((bs[i] % 4) * 16), PadChar, PadChar >>
    ELSE IF n = 2 THEN
        << B64Char(bs[i] \div 4),
           B64Char((bs[i] % 4) * 16 + bs[i + 1] \div 16),
           B64Char((bs[i + 1] % 16) * 4), PadChar >>
    ELSE
        << B64Char(bs[i] \div 4),
           B64Char((bs[i] % 4) * 16 + bs[i + 1] \div 16),
           B64Char((bs[i + 1] % 16) * 4 + bs[i + 2] \div 64),
           B64Char(bs[i + 2] % 64) >> \o B64EncodeFrom(bs, i + 3)

B64Encode(bs) == B64EncodeFrom(bs, 1)

\* number of trailing '=' of a text
RECURSIVE PadCount(_, _)
PadCount(text, n) ==
    IF n = 0 \/ text[n] # PadChar THEN 0 ELSE 1 + PadCount(text, n - 1)

RECURSIVE B64DecodeQuads(_, _, _)
B64DecodeQuads(text, i, m) ==
    LET left == m - i + 1
        a == B64Val(text[i])
        b == B64Val(text[i + 1])
        c == B64Val(text[i + 2])
        d == B64Val(text[i + 3])
    IN  IF left <= 0 THEN << >>
        ELSE IF left = 2 THEN << a * 4 + b \div 16 >>
        ELSE IF left = 3 THEN << a * 4 + b \div 16, (b % 16) * 16 + c \div 4 >>
        ELSE << a * 4 + b \div 16, (b % 16) * 16 + c \div 4, (c % 4) * 64 + d >>
             \o B64DecodeQuads(text, i + 4, m)

\* the result of STANDARD.decode: [ok |-> TRUE, bytes |-> ..] or [ok |-> FALSE, ..]
B64Decode(text) ==
    LET p == PadCount(text, Len(text))
        m == Len(text) - p
        symbolsOk == \A i \in 1..m : B64Val(text[i]) >= 0
        paddingOk == \/ p = 0 /\ m % 4 = 0
                     \/ p = 1 /\ m % 4 = 3
                     \/ p = 2 /\ m % 4 = 2
        lastOk == \/ m % 4 = 0
                  \/ m % 4 = 2 /\ B64Val(text[m]) % 16 = 0
                  \/ m % 4 = 3 /\ B64Val(text[m]) % 4 = 0
    IN  IF symbolsOk /\ paddingOk /\ lastOk
        THEN [ok |-> TRUE, bytes |-> B64DecodeQuads(text, 1, m)]
        ELSE [ok |-> FALSE, bytes |-> << >>]

(***************************************************************************)
(* nmp_hdr.rs: NmpOp, NmpGroup and the 8-byte header.                      *)
(***************************************************************************)
OpRead     == 0
OpReadRsp  == 1
OpWrite    == 2
OpWriteRsp == 3
NmpOp      == {OpRead, OpReadRsp, OpWrite, OpWriteRsp}

GroupDefault == 0
GroupImage   == 1
GroupStat    == 2
GroupConfig  == 3
GroupLog     == 4
GroupCrash   == 5
GroupSplit   == 6
GroupRun     == 7
GroupFs      == 8
GroupShell   == 9
GroupPerUser == 64
NmpGroup == {GroupDefault, GroupImage, GroupStat, GroupConfig, GroupLog, GroupCrash,
             GroupSplit, GroupRun, GroupFs, GroupShell, GroupPerUser}

NmpHdr(op, flags, len, group, seq, id) ==
    [op |-> op, flags |-> flags, len |-> len, group |-> group, seq |-> seq, id |-> id]

\* NmpHdr::new_req
new_req(op, group, id) == NmpHdr(op, 0, 0, group, 0, id)

\* a serializer that writes len in little-endian order
serialize_len_le(h) ==
    << h.op, h.flags, h.len % 256, (h.len \div 256) % 256 >>
        \o WriteU16BE(h.group) \o << h.seq, h.id >>

\* NmpHdr::serialize
serialize(h) ==
    << h.op, h.flags >> \o WriteU16BE(h.len) \o WriteU16BE(h.group) \o << h.seq, h.id >>

\* num::FromPrimitive::from_u8 / from_u16 of the two enums: Some or None
OpFromU8(b)     == b \in NmpOp
GroupFromU16(g) == g \in NmpGroup

\* NmpHdr::deserialize on a cursor over bs.  The result is "ok" with the header,
\* "err" (a read past the end) or "panic" (unwrap of None for an unknown
\* enumerant).  The reads happen in field order, so the first failure decides.
deserialize(bs) ==
    IF Len(bs) < 1 THEN [kind |-> "err"]
    ELSE IF ~OpFromU8(bs[1]) THEN [kind |-> "panic"]
    ELSE IF Len(bs) < 6 THEN [kind |-> "err"]
    ELSE IF ~GroupFromU16(ReadU16BE(SubSeq(bs, 5, 6))) THEN [kind |-> "panic"]
    ELSE IF Len(bs) < 8 THEN [kind |-> "err"]
    ELSE [kind |-> "ok",
          hdr |-> NmpHdr(bs[1], bs[2], ReadU16BE(SubSeq(bs, 3, 4)),
                         ReadU16BE(SubSeq(bs, 5, 6)), bs[7], bs[8])]


(***************************************************************************)
(* serde_cbor: decoding of a body into a Value.  Modelled: unsigned and    *)
(* negative integers, byte and text strings, arrays and maps of definite   *)
(* length, false, true and null.  A Value is [t |-> type, v |-> content];  *)
(* a map's content is the sequence of its <<key, value>> pairs in wire     *)
(* order; an integer's content is its sign and its 8 magnitude bytes, so   *)
(* that values beyond 32 bits are exact.  Indefinite lengths, tags and     *)
(* floats are not drawn by the model and decode as errors here.            *)
(***************************************************************************)
RECURSIVE BigEndianValue(_, _, _)
BigEndianValue(bs, i, n) ==
    IF n = 0 THEN 0 ELSE BigEndianValue(bs, i, n - 1) * 256 + bs[i + n - 1]

\* an argument as its 8 big-endian bytes: integers are kept exactly, whatever their size
Zeros(n) == [k \in 1..n |-> 0]
Arg8(bs, i, n) == Zeros(8 - n) \o SubSeq(bs, i, i + n - 1)

\* the number an 8-byte argument stands for when it is below 2^31,
\* else the largest length (no input is that long)
HugeLen == 2147483647
ArgNumber(a8) ==
    IF (\A k \in 1..4 : a8[k] = 0) /\ a8[5] < 128
    THEN BigEndianValue(a8, 5, 4) ELSE HugeLen

\* the initial byte of an item and its argument
CborHead(bs, i) ==
    IF i > Len(bs) THEN [ok |-> FALSE]
    ELSE LET major == bs[i] \div 32
             ai    == bs[i] % 32
             extra == IF ai < 24 THEN 0
                      ELSE IF ai = 24 THEN 1
                      ELSE IF ai = 25 THEN 2
                      ELSE IF ai = 26 THEN 4
                      ELSE IF ai = 27 THEN 8 ELSE -1
         IN  IF extra < 0 \/ i + extra > Len(bs) THEN [ok |-> FALSE]
             ELSE LET a8 == IF extra = 0 THEN Zeros(7) \o << ai >>
                            ELSE Arg8(bs, i + 1, extra)
                  IN  [ok |-> TRUE, major |-> major, ai |-> ai, arg8 |-> a8,
                       arg |-> ArgNumber(a8), next |-> i + 1 + extra]

\* a CBOR integer: major type 0 is the argument, major type 1 is -1 - argument
CborInt(neg, a8) == [neg |-> neg, mag |-> a8]

RECURSIVE CborItem(_, _)
RECURSIVE CborItems(_, _, _)

\* n items in a row, starting at i
CborItems(bs, i, n) ==
    IF n = 0 THEN [ok |-> TRUE, v |-> << >>, next |-> i]
    ELSE LET first == CborItem(bs, i) IN
         IF ~first.ok THEN [ok |-> FALSE]
         ELSE LET others == CborItems(bs, first.next, n - 1) IN
              IF ~others.ok THEN [ok |-> FALSE]
              ELSE [ok |-> TRUE, v |-> << [t |-> first.t, v |-> first.v] >> \o others.v,
                    next |-> others.next]

CborItem(bs, i) ==
    LET h == CborHead(bs, i) IN
    IF ~h.ok THEN [ok |-> FALSE]
    ELSE IF h.major \in {0, 1} THEN
        [ok |-> TRUE, t |-> "int", v |-> CborInt(h.major = 1, h.arg8), next |-> h.next]
    ELSE IF h.arg > Len(bs) THEN [ok |-> FALSE]
    ELSE IF h.major \in {2, 3} THEN
        IF h.next + h.arg - 1 > Len(bs) THEN [ok |-> FALSE]
        ELSE LET str == SubSeq(bs, h.next, h.next + h.arg - 1) IN
             IF h.major = 3 /\ \E k \in 1..Len(str) : str[k] >= 128 THEN [ok |-> FALSE]
             ELSE [ok |-> TRUE, t |-> IF h.major = 2 THEN "bytes" ELSE "text",
                   v |-> str, next |-> h.next + h.arg]
    ELSE IF h.major = 4 THEN
        LET items == CborItems(bs, h.next, h.arg) IN
        IF ~items.ok THEN [ok |-> FALSE]
        ELSE [ok |-> TRUE, t |-> "array", v |-> items.v, next |-> items.next]
    ELSE IF h.major = 5 THEN
        LET items == CborItems(bs, h.next, 2 * h.arg) IN
        IF ~items.ok THEN [ok |-> FALSE]
        ELSE [ok |-> TRUE, t |-> "map",
              v |-> [k \in 1..h.arg |-> << items.v[2 * k - 1], items.v[2 * k] >>],
              next |-> items.next]
    ELSE IF h.major = 7 /\ h.ai \in {20, 21} THEN
        [ok |-> TRUE, t |-> "bool", v |-> (h.ai = 21), next |-> h.next]
    ELSE IF h.major = 7 /\ h.ai = 22 THEN
        [ok |-> TRUE, t |-> "null", v |-> 0, next |-> h.next]
    ELSE [ok |-> FALSE]

\* serde_cbor::from_reader / from_slice: one item and then the end of the input
CborDecode(bs) ==
    LET item == CborItem(bs, 1) IN
    IF item.ok /\ item.next = Len(bs) + 1
    THEN [ok |-> TRUE, value |-> [t |-> item.t, v |-> item.v]]
    ELSE [ok |-> FALSE]

(***************************************************************************)
(* transfer.rs next_seq_id: a process-wide AtomicU8 behind lazy_static,    *)
(* initialised from thread_rng on first use, read and incremented by one   *)
(* fetch_add.  Several threads call it.                                    *)
(***************************************************************************)
NThreads  == 2
MaxAllocs == 257
SeqWindow == 256

Threads == 1..NThreads

\* a counter that is not a lazily initialised static: every call sets it up again
UninitialisedAtEveryCall(c) == TRUE

\* lazy_static: the initialiser runs when the static has not been initialised yet
Uninitialised(c) == c = -1

\* an increment that saturates at u8::MAX instead of wrapping
fetch_add_saturating(c) == [ret |-> c, new |-> Min(c + 1, 255)]

\* AtomicU8::fetch_add(1, SeqCst): the value before, and the wrapped value after
fetch_add(c) == [ret |-> c, new |-> U8(c + 1)]

NoRequest == [op |-> 0, group |-> 0, id |-> 0, body |-> << >>, seq |-> 0,
              linelength |-> 0, data |-> << >>, hdr |-> new_req(0, 0, 0),
              pending |-> 0]
NoBody    == [t |-> "null", v |-> 0]
NoReturn  == [kind |-> "none", err |-> "", checked |-> FALSE, data |-> << >>,
              hdr |-> new_req(0, 0, 0), body |-> NoBody]

IdleSeq ==
    /\ COUNTER = -1
    /\ tpc = [t \in Threads |-> "idle"]
    /\ allocs = << >>

IdleCodec == codec = [stage |-> "off"]

IdleSerial ==
    /\ pc = "Idle"
    /\ req = NoRequest
    /\ rx = << >>
    /\ tx = << >>
    /\ result = << >>
    /\ bytes_read = 0
    /\ expected_len = 0
    /\ ret = NoReturn
    /\ calls = 0
    /\ wire = << >>

NoOutcome == [kind |-> "none", rc |-> [neg |-> FALSE, mag |-> << 0, 0, 0, 0, 0, 0, 0, 0 >>],
              what |-> ""]
NoAdapter == [stage |-> "off", name |-> "", form |-> "", dbg |-> FALSE,
              entry |-> "", argv |-> << >>, transmitted |-> FALSE, request_body |-> << >>,
              hdr |-> new_req(0, 0, 0), rsp |-> new_req(0, 0, 0), wire |-> << >>,
              body |-> NoBody, decoded |-> FALSE, out |-> NoOutcome]
IdleAdapter == adapter = NoAdapter

IdleFs == xfer = [stage |-> "off"]

IdleEnc == enc = [stage |-> "off"]

IdleHist == last_err = ""

IdleUdp == udp = [stage |-> "off"]

InitSeq == IdleSeq /\ IdleCodec /\ IdleSerial /\ IdleAdapter /\ IdleFs /\ IdleEnc /\ IdleHist /\ IdleUdp

\* a thread enters next_seq_id and dereferences COUNTER; the first one to do so
\* runs the initialiser (std::sync::Once), every later one finds the value
Deref(t) ==
    /\ tpc[t] = "idle"
    /\ Len(allocs) < MaxAllocs
    /\ tpc' = [tpc EXCEPT ![t] = "fetch"]
    /\ IF Uninitialised(COUNTER)
       THEN \E r \in 0..255 : COUNTER' = r
       ELSE COUNTER' = COUNTER
    /\ UNCHANGED <<allocs, notSeq>>

\* COUNTER.fetch_add(1, Ordering::SeqCst) and the return
FetchAdd(t) ==
    /\ tpc[t] = "fetch"
    /\ Len(allocs) < MaxAllocs
    /\ LET r == fetch_add(COUNTER) IN
        /\ COUNTER' = r.new
        /\ allocs' = Append(allocs, r.ret)
    /\ tpc' = [tpc EXCEPT ![t] = "idle"]
    /\ UNCHANGED notSeq

NextSeq == \E t \in Threads : Deref(t) \/ FetchAdd(t)

SpecSeq == InitSeq /\ [][NextSeq]_vars


\* C2: in any run of at most 256 consecutive calls of next_seq_id the returned
\* values are pairwise distinct, and the call 256 places after a call returns
\* the same value as that call (8-bit wrap-around), for every initial value.
\* Stated for the latest call against all earlier ones; as an invariant it
\* covers every pair.
SeqDistinctThenWrap ==
    LET n == Len(allocs) IN
    /\ \A i \in 1..(n - 1) : (n - i < SeqWindow) => allocs[i] # allocs[n]
    /\ n > SeqWindow => allocs[n] = allocs[n - SeqWindow]

SeqWrapWitness == Len(allocs) = SeqWindow + 1 /\ allocs[SeqWindow + 1] = allocs[1]

\* C3: with several threads calling next_seq_id, under every interleaving the
\* values handed out in any window of 256 consecutive allocations are pairwise
\* distinct: the window holds as many different values as allocations.
ConcurrentWindowDistinct ==
    LET n  == Len(allocs)
        lo == IF n > SeqWindow THEN n - SeqWindow + 1 ELSE 1
    IN  Cardinality({allocs[i] : i \in lo..n}) = n - lo + 1

ConcurrentWitness ==
    /\ \A t \in Threads : tpc[t] = "fetch"
    /\ Len(allocs) >= SeqWindow


(***************************************************************************)
(* transfer.rs UdpTransport::encode_header / decode_header (SMP v2).       *)
(***************************************************************************)
SmpVersion == 1

encode_header(op, group, id, len, seq) ==
    << (SmpVersion % 4) * 8 + (op % 8), 0 >>
        \o << (len \div 256) % 256, len % 256 >>
        \o << (group \div 256) % 256, group % 256 >>
        \o << seq, id >>

\* a decoder that takes the whole of byte 0 as the op
decode_header_unmasked(data) ==
    IF Len(data) < 8 THEN [kind |-> "err"]
    ELSE IF data[1] \notin NmpOp THEN [kind |-> "err"]
    ELSE IF ~GroupFromU16(data[5] * 256 + data[6]) THEN [kind |-> "err"]
    ELSE [kind |-> "ok",
          hdr |-> NmpHdr(data[1], 0, data[3] * 256 + data[4],
                         data[5] * 256 + data[6], data[7], data[8])]

decode_header(data) ==
    IF Len(data) < 8 THEN [kind |-> "err"]
    ELSE LET op_val    == data[1] % 8
             len       == data[3] * 256 + data[4]
             group_val == data[5] * 256 + data[6]
         IN  IF op_val \notin {0, 1, 2, 3} THEN [kind |-> "err"]
             ELSE IF ~GroupFromU16(group_val) THEN [kind |-> "err"]
             ELSE [kind |-> "ok",
                   hdr |-> NmpHdr(op_val, 0, len, group_val, data[7], data[8])]

(***************************************************************************)
(* The two header codecs applied to headers drawn from bounded sets.  For  *)
(* the UDP form the peer may set the version bits, the reserved bits and   *)
(* the flags byte of the header it sends to any value.                     *)
(***************************************************************************)
CodecFlags == {0, 1, 255}
CodecLens  == {0, 1, 255, 256, 65535}
CodecSeqs  == {0, 127, 255}
CodecIds   == {0, 8, 255}

CodecHeaders(form) ==
    { NmpHdr(op, fl, len, g, sq, id) :
        op \in NmpOp, fl \in (IF form = "serial" THEN CodecFlags ELSE {0}),
        len \in CodecLens, g \in NmpGroup, sq \in CodecSeqs, id \in CodecIds }

InitCodec ==
    /\ IdleSeq
    /\ IdleSerial
    /\ IdleAdapter
    /\ IdleFs
    /\ IdleUdp
    /\ IdleHist
    /\ IdleEnc
    /\ \E form \in {"serial", "udp"} : \E h \in CodecHeaders(form) :
          codec = [stage |-> "header", form |-> form, hdr |-> h,
                   wire |-> << >>, out |-> [kind |-> "none"]]

CodecEncode ==
    /\ codec.stage = "header"
    /\ codec' = [codec EXCEPT
          !.stage = "wire",
          !.wire = IF codec.form = "serial"
                   THEN serialize(codec.hdr)
                   ELSE encode_header(codec.hdr.op, codec.hdr.group, codec.hdr.id,
                                      codec.hdr.len, codec.hdr.seq)]
    /\ UNCHANGED notCodec

\* the peer's header differs from the client's in the bits the decoder is to ignore
CodecPeerBits ==
    /\ codec.stage = "wire"
    /\ codec.form = "udp"
    /\ \E ver \in 0..3 : \E res \in 0..7 : \E fl \in CodecFlags :
          codec' = [codec EXCEPT
              !.stage = "peer",
              !.wire = << res * 32 + ver * 8 + (codec.wire[1] % 8), fl >>
                           \o SubSeqFrom(codec.wire, 3)]
    /\ UNCHANGED notCodec

CodecDecode ==
    /\ codec.stage \in {"wire", "peer"}
    /\ codec' = [codec EXCEPT
          !.stage = "decoded",
          !.out = IF codec.form = "serial"
                  THEN deserialize(codec.wire)
                  ELSE decode_header(codec.wire)]
    /\ UNCHANGED notCodec

NextCodec == CodecEncode \/ CodecPeerBits \/ CodecDecode

SpecCodec == InitCodec /\ [][NextCodec]_vars

\* C5: the serial header codec round-trips: deserialize(serialize(h)) is h field
\* by field, and serialize writes exactly 8 bytes in the order op, flags,
\* len (big-endian), group (big-endian), seq, id.
SerialHeaderRoundTrip ==
    (codec.form = "serial" /\ codec.stage \in {"wire", "decoded"}) =>
        /\ Len(codec.wire) = 8
        /\ codec.wire[1] = codec.hdr.op
        /\ codec.wire[2] = codec.hdr.flags
        /\ codec.wire[3] * 256 + codec.wire[4] = codec.hdr.len
        /\ codec.wire[5] * 256 + codec.wire[6] = codec.hdr.group
        /\ codec.wire[7] = codec.hdr.seq
        /\ codec.wire[8] = codec.hdr.id
        /\ \A i \in 1..8 : codec.wire[i] \in 0..255
        /\ codec.stage = "decoded" =>
              (codec.out.kind = "ok" /\ codec.out.hdr = codec.hdr)

SerialHeaderWitness ==
    /\ codec.form = "serial" /\ codec.stage = "decoded"
    /\ codec.hdr.len = 256 /\ codec.hdr.group = GroupPerUser /\ codec.hdr.flags = 255
    /\ codec.out.kind = "ok"

\* C6: the UDP header codec round-trips: decode_header(encode_header(op, group,
\* id, len, seq)) has the same op, group, id, len and seq; byte 0 of the encoded
\* header is (1 << 3) | op; the decoder reads op from the low three bits and the
\* result does not depend on the version bits, the reserved bits or the flags byte.
UdpHeaderRoundTrip ==
    codec.form = "udp" =>
        /\ codec.stage = "wire" =>
              /\ Len(codec.wire) = 8
              /\ codec.wire[1] = 8 + codec.hdr.op
              /\ codec.wire[2] = 0
        /\ codec.stage = "decoded" =>
              /\ codec.out.kind = "ok"
              /\ codec.out.hdr.op = codec.hdr.op
              /\ codec.out.hdr.group = codec.hdr.group
              /\ codec.out.hdr.id = codec.hdr.id
              /\ codec.out.hdr.len = codec.hdr.len
              /\ codec.out.hdr.seq = codec.hdr.seq
              /\ codec.out.hdr.flags = 0

UdpHeaderWitness ==
    /\ codec.form = "udp" /\ codec.stage = "decoded"
    /\ codec.wire[1] >= 32 /\ codec.wire[2] = 255
    /\ codec.hdr.op = OpWriteRsp /\ codec.hdr.len = 65535
    /\ codec.out.kind = "ok"


(***************************************************************************)
(* transfer.rs encode_request: header, CRC, length prefix, base64 and the  *)
(* split into lines of at most linelength - 4 base64 bytes.                *)
(***************************************************************************)
Newline == 10
\* a start marker with another second byte
SofMarkerOther == << 6, 8 >>
SofMarker  == << 6, 9 >>
ContMarker == << 4, 20 >>

\* the loop of lines 457-472 from position written (0-based), with the two markers
RECURSIVE FrameLines(_, _, _, _, _)
FrameLines(text, written, linelength, sof, cont) ==
    IF written >= Len(text) THEN << >>
    ELSE LET write_len == Min(linelength - 4, Len(text) - written) IN
         (IF written = 0 THEN sof ELSE cont)
            \o SubSeq(text, written + 1, written + write_len)
            \o << Newline >>
            \o FrameLines(text, written + write_len, linelength, sof, cont)

\* line 432, and line 307 for UDP: body.len() as u16
header_len(body_len) == U16(body_len)

\* line 444: serialized.len() as u16, the CRC appended
chunk_length(serialized_len) == U16(serialized_len)

\* lines 438-445: CRC appended, then the length of all that prepended
Message(serialized) ==
    LET withCrc == serialized \o WriteU16BE(Crc16Xmodem(serialized))
    IN  WriteU16BE(chunk_length(Len(withCrc))) \o withCrc

encode_request(linelength, op, group, id, body, seq_id) ==
    LET request_header == [new_req(op, group, id) EXCEPT
                              !.seq = seq_id, !.len = header_len(Len(body))]
        serialized == serialize(request_header) \o body
        base64_data == B64Encode(Message(serialized))
    IN  [data |-> FrameLines(base64_data, 0, linelength, SofMarker, ContMarker),
         hdr  |-> request_header]

(***************************************************************************)
(* transfer.rs transceive: the reading loop (lines 494-529), one pass per  *)
(* line, and the checks after it (lines 531-559).                          *)
(***************************************************************************)
FirstNewline(s, from) ==
    LET idx == {k \in from..Len(s) : s[k] = Newline}
    IN  IF idx = {} THEN 0 ELSE CHOOSE k \in idx : \A j \in idx : k <= j

\* a transport that sends the request again when the read timed out
StoppedOrSentAgain(kind, err, rest, res, br, el) ==
    [pc |-> IF kind = "panic" THEN "Panicked"
            ELSE IF err = "timed out" THEN "Sending" ELSE "Failed",
     ret |-> [NoReturn EXCEPT !.kind = kind, !.err = err],
     rx |-> rest, result |-> res, bytes_read |-> br, expected_len |-> el]

Stopped(kind, err, rest, res, br, el) ==
    [pc |-> IF kind = "panic" THEN "Panicked" ELSE "Failed",
     ret |-> [NoReturn EXCEPT !.kind = kind, !.err = err],
     rx |-> rest, result |-> res, bytes_read |-> br, expected_len |-> el]

\* one pass of the outer loop (lines 494-529) over the port's pending input
ChunkStep(port, res, br, el) ==
    LET marker == IF br = 0 THEN SofMarker ELSE ContMarker
        nl     == FirstNewline(port, 3)
    IN  IF Len(port) = 0 THEN Stopped("err", "timed out", port, res, br, el)
        ELSE IF port[1] # marker[1]
            THEN Stopped("err", "read error", Tail(port), res, br, el)
        ELSE IF Len(port) = 1 THEN Stopped("err", "timed out", << >>, res, br, el)
        ELSE IF port[2] # marker[2]
            THEN Stopped("err", "read error", SubSeqFrom(port, 3), res, br, el)
        ELSE IF nl = 0
            THEN Stopped("err", "timed out", << >>, res \o SubSeqFrom(port, 3),
                         br + Len(port) - 2, el)
        ELSE LET line    == SubSeq(port, 3, nl - 1)
                 res2    == res \o line
                 br2     == br + Len(line)
                 rest    == SubSeqFrom(port, nl + 1)
                 decoded == B64Decode(res2)
             IN  IF ~decoded.ok
                     THEN Stopped("err", "base64 decode", rest, res2, br2, el)
                 ELSE IF el = 0 /\ Len(decoded.bytes) < 2
                     \* BigEndian::read_u16 on a slice shorter than two bytes
                     THEN Stopped("panic", "read_u16", rest, res2, br2, el)
                 ELSE LET len == IF el = 0 THEN ReadU16BE(decoded.bytes) ELSE 0
                          el2 == IF el = 0 /\ len > 0 THEN len ELSE el
                      IN  [pc |-> IF Len(decoded.bytes) - 2 >= el2
                                  THEN "Validating" ELSE "Reassembling",
                           ret |-> NoReturn, rx |-> rest, result |-> res2,
                           bytes_read |-> br2, expected_len |-> el2]

\* lines 531-559 on the accumulated text: the result of the free function
\* transceive; checked says that the length and CRC checks passed, data is the
\* region they covered
FramerResult(text) ==
    LET decoded == B64Decode(text).bytes IN
    IF Len(decoded) < 2
        THEN [NoReturn EXCEPT !.kind = "panic", !.err = "read_u16"]
    ELSE IF ReadU16BE(decoded) # Len(decoded) - 2
        THEN [NoReturn EXCEPT !.kind = "err", !.err = "wrong chunk length"]
    ELSE IF Len(decoded) < 4
        \* decoded[2..decoded.len() - 2] with the end before the start
        THEN [NoReturn EXCEPT !.kind = "panic", !.err = "slice index"]
    ELSE LET data == SubSeq(decoded, 3, Len(decoded) - 2)
             read_checksum == ReadU16BE(SubSeqFrom(decoded, Len(decoded) - 1))
             passed == [NoReturn EXCEPT !.checked = TRUE, !.data = data]
         IN  IF read_checksum # Crc16Xmodem(data)
                 THEN [NoReturn EXCEPT !.kind = "err", !.err = "wrong checksum"]
             ELSE LET h == deserialize(data) IN
                  IF h.kind # "ok"
                      \* NmpHdr::deserialize(&mut cursor).unwrap()
                      THEN [passed EXCEPT !.kind = "panic", !.err = "unwrap"]
                  ELSE LET body == CborDecode(SubSeqFrom(data, 9)) IN
                       IF ~body.ok
                       THEN [passed EXCEPT !.kind = "err", !.err = "cbor", !.hdr = h.hdr]
                       ELSE [passed EXCEPT !.kind = "ok", !.hdr = h.hdr,
                                           !.body = body.value]

(***************************************************************************)
(* transfer.rs SerialTransport::transceive: one call at a time on an open  *)
(* port.  The call allocates a sequence number, frames the request, drains *)
(* the input buffer, writes, reads line by line, checks, and correlates.   *)
(* The device is the environment: it takes what was written and answers    *)
(* with bytes of its own choosing.                                         *)
(***************************************************************************)
MaxCalls == 2

SeqStarts   == {7, 255}                 \* values thread_rng may give COUNTER
ReqOps      == {OpRead, OpWrite, OpReadRsp}
ReqGroups   == {GroupDefault}
ReqIds      == {5}
ReqBodies   == { << >>, << 160 >>, << 161, 97, 100, 97, 104 >> }   \* "", {}, {"d":"h"}
LineLengths == {6, 8, 9, 128}

\* lines 157-176: the checks of SerialTransport::transceive on what the framer returned
Correlate(request_header, fr) ==
    IF fr.kind # "ok" THEN fr
    ELSE IF fr.hdr.seq # request_header.seq
        THEN [fr EXCEPT !.kind = "err", !.err = "wrong sequence number"]
    ELSE IF request_header.op \notin {OpRead, OpWrite}
        THEN [fr EXCEPT !.kind = "err", !.err = "unexpected request op type"]
    ELSE IF \/ fr.hdr.op # (IF request_header.op = OpRead THEN OpReadRsp ELSE OpWriteRsp)
            \/ fr.hdr.group # request_header.group
        THEN [fr EXCEPT !.kind = "err", !.err = "wrong response types"]
    ELSE fr

\* what a device may answer to request r: the matching header with each body and
\* line length, and the headers that differ from it in one field (4 is no op,
\* 10 is no group)
DeviceLineLengths == {8, 128}
RspBodies == { << 160 >>, << 161, 98, 114, 99, 3 >>, << 161, 98 >>, << >> }
RspHeaders(r) ==
    LET h == NmpHdr(r.op + 1, 0, 0, r.group, r.seq, r.id)
    IN  { h,
          [h EXCEPT !.op = r.op],
          [h EXCEPT !.op = 4],
          [h EXCEPT !.group = GroupImage],
          [h EXCEPT !.group = 10],
          [h EXCEPT !.seq = U8(r.seq + 1)] }

Frame(msg, linelength) ==
    FrameLines(B64Encode(msg), 0, linelength, SofMarker, ContMarker)

RspHeaderBytes(op, group, seq, id, body) ==
    serialize(NmpHdr(op, 0, U16(Len(body)), group, seq, id))

WellFramedReplies(r) ==
    { Frame(Message(RspHeaderBytes(r.op + 1, r.group, r.seq, r.id, b) \o b), dl) :
        b \in RspBodies, dl \in DeviceLineLengths }
    \cup
    { Frame(Message(RspHeaderBytes(h.op, h.group, h.seq, h.id, << 160 >>) \o << 160 >>), 128) :
        h \in RspHeaders(r) }

GoodPayload(r) == RspHeaderBytes(r.op + 1, r.group, r.seq, r.id, << 160 >>) \o << 160 >>

FaultyReplies(r) ==
    LET good == Message(GoodPayload(r))
        text == B64Encode(good)
        gl   == Len(good)
    IN  { << 6, 9, Newline >>,                                   \* empty first line
          Frame(<< 0 >>, 128),                                   \* one decoded byte
          Frame(<< 0, 0 >>, 128),                                \* zero length prefix, nothing else
          Frame(<< 0, 1, 7 >>, 128),                             \* three decoded bytes
          Frame(Message(<< >>), 128),                            \* checked payload of no bytes
          Frame(Message(SubSeq(GoodPayload(r), 1, 5)), 128),     \* checked payload of 5 bytes
          Frame(<< 0, 0 >> \o SubSeqFrom(good, 3), 128),         \* zero length prefix
          Frame(WriteU16BE(gl - 1) \o SubSeqFrom(good, 3), 128), \* wrong length prefix
          Frame(SubSeq(good, 1, gl - 1) \o << U8(good[gl] + 1) >>, 128),   \* wrong CRC
          FrameLines(text, 0, 128, << 6, 8 >>, ContMarker),      \* wrong start marker
          FrameLines(text, 0, 8, SofMarker, << 4, 21 >>),        \* wrong continuation marker
          << 6, 9, 33, 33, 33, 33, Newline >>,                   \* not base64
          Frame(good, 6),                                        \* lines of two characters
          SubSeq(Frame(good, 128), 1, Len(text) + 2),            \* final newline missing
          SubSeq(Frame(good, 8), 1, 7) }                         \* stops after the first line

Replies(r) == WellFramedReplies(r) \cup FaultyReplies(r) \cup {r.data}

InitSerial ==
    /\ IdleSeq
    /\ IdleCodec
    /\ IdleSerial
    /\ IdleAdapter
    /\ IdleFs
    /\ IdleUdp
    /\ IdleHist
    /\ IdleEnc

\* line 482: port.bytes_to_read(), the number of bytes waiting in the input buffer
bytes_to_read(port) == Len(port)

\* lines 137-154: next_seq_id and encode_request
Call(op, group, id, body, linelength) ==
    /\ pc = "Idle"
    /\ calls < MaxCalls
    /\ \E r \in SeqStarts :
        LET fa  == fetch_add(IF Uninitialised(COUNTER) THEN r ELSE COUNTER)
            encoded == encode_request(linelength, op, group, id, body, fa.ret)
        IN  /\ COUNTER' = fa.new
            /\ allocs' = Append(allocs, fa.ret)
            /\ req' = [op |-> op, group |-> group, id |-> id, body |-> body,
                       seq |-> fa.ret, linelength |-> linelength,
                       data |-> encoded.data, hdr |-> encoded.hdr,
                       pending |-> bytes_to_read(rx)]
    /\ pc' = "Sending"
    /\ calls' = calls + 1
    /\ UNCHANGED <<rx, tx, loopVars, ret, wire, last_err, notSerial>>

\* a drain that reads nothing
drain_nothing(port, to_read) == port

\* lines 483-485: read_byte to_read times; the port gives its oldest bytes first
drain(port, to_read) == SubSeqFrom(port, to_read + 1)

\* lines 482-493: drain the input buffer, write the request, set up the loop
Send ==
    /\ pc = "Sending"
    /\ rx' = drain(rx, bytes_to_read(rx))
    /\ tx' = req.data
    /\ result' = << >>
    /\ bytes_read' = 0
    /\ expected_len' = 0
    /\ pc' = "AwaitingFirstByte"
    /\ UNCHANGED <<req, ret, calls, wire, COUNTER, allocs, last_err, notSerial>>

\* the device takes the request and writes its answer while the caller waits
DeviceReply ==
    /\ pc = "AwaitingFirstByte"
    /\ tx # << >>
    /\ \E reply \in Replies(req) :
        /\ rx' = rx \o reply
        /\ wire' = reply
    /\ tx' = << >>
    /\ UNCHANGED <<pc, req, loopVars, ret, calls, COUNTER, allocs, last_err, notSerial>>

\* lines 494-529: one line, or the timeout when the input runs out
ReadChunk ==
    /\ pc \in {"AwaitingFirstByte", "Reassembling"}
    /\ LET o == ChunkStep(rx, result, bytes_read, expected_len) IN
        /\ pc' = o.pc
        /\ rx' = o.rx
        /\ result' = o.result
        /\ bytes_read' = o.bytes_read
        /\ expected_len' = o.expected_len
        /\ ret' = o.ret
    /\ UNCHANGED <<req, tx, calls, wire, COUNTER, allocs, last_err, notSerial>>

\* lines 531-559 and 157-176: the checks, the decode and the correlation
Validate ==
    /\ pc = "Validating"
    /\ LET r == Correlate(req.hdr, FramerResult(result)) IN
        /\ ret' = r
        /\ pc' = CASE r.kind = "ok"    -> "Delivered"
                   [] r.kind = "err"   -> "Failed"
                   [] r.kind = "panic" -> "Panicked"
    /\ UNCHANGED <<req, rx, tx, loopVars, calls, wire, COUNTER, allocs, last_err, notSerial>>

\* the caller has the result; the transport is ready for the next call
Return ==
    /\ pc \in {"Delivered", "Failed"}
    /\ pc' = "Idle"
    /\ req' = NoRequest
    /\ ret' = NoReturn
    /\ result' = << >>
    /\ bytes_read' = 0
    /\ expected_len' = 0
    /\ wire' = << >>
    /\ last_err' = ret.err
    /\ UNCHANGED <<rx, tx, calls, COUNTER, allocs, notSerial>>

NextSerial ==
    \/ \E op \in ReqOps, group \in ReqGroups, id \in ReqIds,
          body \in ReqBodies, linelength \in LineLengths :
            Call(op, group, id, body, linelength)
    \/ Send
    \/ DeviceReply
    \/ ReadChunk
    \/ Validate
    \/ Return

SpecSerial == InitSerial /\ [][NextSerial]_vars

Ended == pc \in {"Delivered", "Failed", "Panicked"}

\* the op a response must carry for the request's op
ExpectedOp(op) == IF op = OpRead THEN OpReadRsp ELSE OpWriteRsp

\* the checked region holds a header whose op or group is not an enumerant
UnknownEnumerant(data) ==
    /\ Len(data) >= 8
    /\ \/ data[1] \notin NmpOp
       \/ ReadU16BE(SubSeq(data, 5, 6)) \notin NmpGroup

\* the checked region holds a header that does not answer request r
Uncorrelated(r, data) ==
    /\ Len(data) >= 8
    /\ \/ data[7] # r.seq
       \/ data[1] # ExpectedOp(r.op)
       \/ ReadU16BE(SubSeq(data, 5, 6)) # r.group

\* C1: when SerialTransport::transceive returns Ok for a Read or Write request,
\* the returned header has the request's seq, the response op of the request's
\* op and the request's group; and a response whose header differs in any of
\* the three makes the call return an error.
CorrelatedOrError ==
    /\ pc = "Delivered" =>
        /\ ret.hdr.seq = req.seq
        /\ ret.hdr.op = ExpectedOp(req.op)
        /\ ret.hdr.group = req.group
    /\ (Ended /\ req.op \in {OpRead, OpWrite} /\ ret.checked
             /\ Uncorrelated(req, ret.data))
        => (pc = "Failed" /\ ret.kind = "err")

\* C4: when the device's answer is the very bytes encode_request produced for
\* the call, for any line length, the inbound path passes the length and CRC
\* checks and the region they cover is the request's header followed by its body.
LoopbackReassembles ==
    (Ended /\ wire # << >> /\ wire = req.data)
        => (ret.checked /\ ret.data = serialize(req.hdr) \o req.body)

\* C7: a checked header whose op byte is not one of 0..3, or whose group is not
\* in the group set, ends the serial transceive with an error value.
UnknownEnumerantIsError ==
    (Ended /\ ret.checked /\ UnknownEnumerant(ret.data))
        => (pc = "Failed" /\ ret.kind = "err")

\* C8: whatever bytes the device sends, the serial transceive ends in Delivered
\* with Ok or in Failed with an error value, and in no other way.
EndsDeliveredOrFailed ==
    /\ pc \in {"Idle", "Sending", "AwaitingFirstByte", "Reassembling", "Validating",
               "Delivered", "Failed"}
    /\ pc = "Delivered" => ret.kind = "ok"
    /\ pc = "Failed" => ret.kind = "err"


(***************************************************************************)
(* The service adapters (default.rs, os.rs, fs.rs, stat.rs, settings.rs),  *)
(* from the response on: the correlation check of the serial forms, the    *)
(* debug rendering of the body, the rc policy and the typed decode.        *)
(***************************************************************************)
KeyRc       == << 114, 99 >>
KeyR        == << 114 >>
KeyO        == << 111 >>
KeyTasks    == << 116, 97, 115, 107, 115 >>
KeyBufSize  == << 98, 117, 102, 95, 115, 105, 122, 101 >>
KeyBufCount == << 98, 117, 102, 95, 99, 111, 117, 110, 116 >>
KeyOutput   == << 111, 117, 116, 112, 117, 116 >>
KeyBootloader  == << 98, 111, 111, 116, 108, 111, 97, 100, 101, 114 >>
KeyMode        == << 109, 111, 100, 101 >>
KeyNoDowngrade == << 110, 111, 45, 100, 111, 119, 110, 103, 114, 97, 100, 101 >>
KeyLen      == << 108, 101, 110 >>
KeyStatList == << 115, 116, 97, 116, 95, 108, 105, 115, 116 >>
KeyVal      == << 118, 97, 108 >>

\* the entries of a map value that have the text key k
Entries(v, k) ==
    IF v.t # "map" THEN {}
    ELSE {i \in 1..Len(v.v) : v.v[i][1].t = "text" /\ v.v[i][1].v = k}
Has(v, k) == Entries(v, k) # {}
Get(v, k) == v.v[CHOOSE i \in Entries(v, k) : TRUE][2]

\* integers: a sign and eight magnitude bytes (n = mag, or -1 - mag when neg)
IsZero(n) == ~n.neg /\ n.mag = Zeros(8)
FitsI32(n) == SubSeq(n.mag, 1, 4) = Zeros(4) /\ n.mag[5] < 128
FitsU32(n) == ~n.neg /\ SubSeq(n.mag, 1, 4) = Zeros(4)
Complement(bs) == [k \in 1..Len(bs) |-> 255 - bs[k]]

\* `as i32`: the low 32 bits, read as two's complement
TruncI32(n) ==
    LET lo   == SubSeq(n.mag, 5, 8)
        bits == IF n.neg THEN Complement(lo) ELSE lo
        low  == IF bits[1] >= 128 THEN Complement(bits) ELSE bits
    IN  [neg |-> bits[1] >= 128, mag |-> Zeros(4) \o low]

\* serde_json::to_string_pretty of a serde_cbor::Value: a map key has to be
\* something JSON can write as a string (text, integer, boolean)
RECURSIVE to_string_pretty(_)
to_string_pretty(v) ==
    IF v.t = "map" THEN
        \A i \in 1..Len(v.v) :
            /\ v.v[i][1].t \in {"text", "int", "bool"}
            /\ to_string_pretty(v.v[i][2])
    ELSE IF v.t = "array" THEN \A i \in 1..Len(v.v) : to_string_pretty(v.v[i])
    ELSE TRUE

\* serde_cbor::value::from_value into a derived struct: the value is a map, each
\* field that is present has its type, each field without a default is present
FieldOk(type, x) ==
    CASE type = "String"  -> x.t = "text"
      [] type = "u32"     -> x.t = "int" /\ FitsU32(x.v)
      [] type = "i32"     -> x.t = "int" /\ FitsI32(x.v)
      [] type = "Option<i32>"  -> x.t = "null" \/ (x.t = "int" /\ FitsI32(x.v))
      [] type = "Option<bool>" -> x.t \in {"null", "bool"}
      [] type = "bytes"   -> x.t \in {"bytes", "text"}
      [] type = "Vec<String>" -> x.t = "array" /\ \A i \in 1..Len(x.v) : x.v[i].t = "text"
      [] type = "HashMap<String, TaskInfo>" ->
            x.t = "map" /\ \A i \in 1..Len(x.v) : x.v[i][1].t = "text" /\ x.v[i][2].t = "map"
      [] type = "HashMap<String, i64>" ->
            x.t = "map" /\ \A i \in 1..Len(x.v) : x.v[i][1].t = "text" /\ x.v[i][2].t = "int"

Field(name, type, required) == [name |-> name, type |-> type, required |-> required]

from_value(fields, v) ==
    /\ v.t = "map"
    /\ \A f \in fields :
        IF Has(v, f.name) THEN FieldOk(f.type, Get(v, f.name)) ELSE ~f.required

EchoRsp         == {Field(KeyR, "String", TRUE)}
TaskStatRsp     == {Field(KeyTasks, "HashMap<String, TaskInfo>", TRUE)}
McumgrParamsRsp == {Field(KeyBufSize, "u32", TRUE), Field(KeyBufCount, "u32", TRUE)}
OsInfoRsp       == {Field(KeyOutput, "String", TRUE)}
BootloaderInfoRsp == {Field(KeyBootloader, "String", FALSE),
                      Field(KeyMode, "Option<i32>", FALSE),
                      Field(KeyNoDowngrade, "Option<bool>", FALSE)}
FsStatRsp       == {Field(KeyLen, "u32", TRUE), Field(KeyRc, "i32", FALSE)}
StatListRsp     == {Field(KeyStatList, "Vec<String>", FALSE), Field(KeyRc, "i32", FALSE)}
SettingsReadRsp == {Field(KeyVal, "bytes", FALSE), Field(KeyRc, "i32", FALSE)}
ShellExecRsp    == {Field(KeyO, "String", FALSE), Field(KeyRc, "i32", FALSE)}

\* the rc field of a struct decoded by from_value: #[serde(default)] gives 0
TypedRc(v) == IF Has(v, KeyRc) THEN Get(v, KeyRc).v ELSE CborInt(FALSE, Zeros(8))

\* what an adapter returns
Done             == [kind |-> "ok", rc |-> CborInt(FALSE, Zeros(8)), what |-> ""]
DeviceError(rc)  == [kind |-> "device", rc |-> rc, what |-> ""]
OtherError(what) == [kind |-> "error", rc |-> CborInt(FALSE, Zeros(8)), what |-> what]

\* os.rs get_rc: the rc of a map with a text key "rc" and an integer value
NoRc == [some |-> FALSE, rc |-> CborInt(FALSE, Zeros(8))]
get_rc(response_body) ==
    IF Has(response_body, KeyRc) /\ Get(response_body, KeyRc).t = "int"
    THEN [some |-> TRUE, rc |-> TruncI32(Get(response_body, KeyRc).v)]
    ELSE NoRc

\* settings.rs get_rc
settings_get_rc(response_body) ==
    IF Has(response_body, KeyRc) /\ Get(response_body, KeyRc).t = "int"
    THEN [some |-> TRUE, rc |-> TruncI32(Get(response_body, KeyRc).v)]
    ELSE NoRc

\* os.rs check_answer
check_answer(request_header, response_header) ==
    IF response_header.seq # request_header.seq THEN FALSE
    ELSE IF request_header.op \notin {OpRead, OpWrite} THEN FALSE
    ELSE ~(\/ response_header.op # ExpectedOp(request_header.op)
           \/ response_header.group # request_header.group)

\* debug!(.., serde_json::to_string_pretty(&response_body)?): the argument is
\* evaluated, and can fail, only when debug logging is on
DebugFails(dbg, response_body) == dbg /\ ~to_string_pretty(response_body)

\* the part of each adapter after the exchange; h is the response header, v the
\* response body, q the request header, dbg whether debug logging is on
echo(q, h, v, dbg) ==
    IF ~check_answer(q, h) THEN OtherError("wrong answer types")
    ELSE IF DebugFails(dbg, v) THEN OtherError("json")
    ELSE IF ~from_value(EchoRsp, v) THEN OtherError("unexpected answer from device")
    ELSE Done

taskstat(q, h, v, dbg) ==
    IF ~check_answer(q, h) THEN OtherError("wrong answer types")
    ELSE IF DebugFails(dbg, v) THEN OtherError("json")
    ELSE IF ~from_value(TaskStatRsp, v) THEN OtherError("unexpected answer from device")
    ELSE Done

mcumgr_params(q, h, v, dbg) ==
    IF ~check_answer(q, h) THEN OtherError("wrong answer types")
    ELSE IF DebugFails(dbg, v) THEN OtherError("json")
    ELSE IF ~from_value(McumgrParamsRsp, v) THEN OtherError("unexpected answer from device")
    ELSE Done

os_info(q, h, v, dbg) ==
    IF ~check_answer(q, h) THEN OtherError("wrong answer types")
    ELSE IF DebugFails(dbg, v) THEN OtherError("json")
    ELSE IF get_rc(v).some /\ ~IsZero(get_rc(v).rc) THEN DeviceError(get_rc(v).rc)
    ELSE IF ~from_value(OsInfoRsp, v) THEN OtherError("unexpected answer from device")
    ELSE Done

bootloader_info(q, h, v, dbg) ==
    IF ~check_answer(q, h) THEN OtherError("wrong answer types")
    ELSE IF DebugFails(dbg, v) THEN OtherError("json")
    ELSE IF get_rc(v).some /\ ~IsZero(get_rc(v).rc) THEN DeviceError(get_rc(v).rc)
    ELSE IF ~from_value(BootloaderInfoRsp, v) THEN OtherError("unexpected answer from device")
    ELSE Done

\* a reset that takes rc through get_rc, and so through `as i32`
reset_rc_as_i32(q, h, v, dbg) ==
    IF h.seq # q.seq THEN OtherError("wrong sequence number")
    ELSE IF h.op # OpWriteRsp \/ h.group # GroupDefault THEN OtherError("wrong response types")
    ELSE IF DebugFails(dbg, v) THEN OtherError("json")
    ELSE IF get_rc(v).some /\ ~IsZero(get_rc(v).rc) THEN DeviceError(get_rc(v).rc)
    ELSE Done

\* default.rs reset: the loop over the map compares the i128 itself with 0
reset(q, h, v, dbg) ==
    IF h.seq # q.seq THEN OtherError("wrong sequence number")
    ELSE IF h.op # OpWriteRsp \/ h.group # GroupDefault THEN OtherError("wrong response types")
    ELSE IF DebugFails(dbg, v) THEN OtherError("json")
    ELSE IF Has(v, KeyRc) /\ Get(v, KeyRc).t = "int" /\ ~IsZero(Get(v, KeyRc).v)
        THEN DeviceError(Get(v, KeyRc).v)
    ELSE Done

\* fs.rs stat
stat(q, h, v, dbg) ==
    IF ~check_answer(q, h) THEN OtherError("wrong answer types")
    ELSE IF DebugFails(dbg, v) THEN OtherError("json")
    ELSE IF ~from_value(FsStatRsp, v) THEN OtherError("unexpected answer from device")
    ELSE IF ~IsZero(TypedRc(v)) THEN DeviceError(TypedRc(v))
    ELSE Done

stat_list(q, h, v, dbg) ==
    IF ~check_answer(q, h) THEN OtherError("wrong answer types")
    ELSE IF DebugFails(dbg, v) THEN OtherError("json")
    ELSE IF ~from_value(StatListRsp, v) THEN OtherError("unexpected answer from device")
    ELSE IF ~IsZero(TypedRc(v)) THEN DeviceError(TypedRc(v))
    ELSE Done

settings_read(q, h, v, dbg) ==
    IF ~check_answer(q, h) THEN OtherError("wrong answer types")
    ELSE IF DebugFails(dbg, v) THEN OtherError("json")
    ELSE IF ~from_value(SettingsReadRsp, v) THEN OtherError("unexpected answer from device")
    ELSE IF ~IsZero(TypedRc(v)) THEN DeviceError(TypedRc(v))
    ELSE Done

settings_write(q, h, v, dbg) ==
    IF ~check_answer(q, h) THEN OtherError("wrong answer types")
    ELSE IF DebugFails(dbg, v) THEN OtherError("json")
    ELSE IF settings_get_rc(v).some /\ ~IsZero(settings_get_rc(v).rc)
        THEN DeviceError(settings_get_rc(v).rc)
    ELSE Done

\* the Transport forms: the transport has correlated the response already
echo_transport(v, dbg) ==
    IF DebugFails(dbg, v) THEN OtherError("json")
    ELSE IF ~from_value(EchoRsp, v) THEN OtherError("unexpected answer from device")
    ELSE Done

taskstat_transport(v, dbg) ==
    IF DebugFails(dbg, v) THEN OtherError("json")
    ELSE IF ~from_value(TaskStatRsp, v) THEN OtherError("unexpected answer from device")
    ELSE Done

mcumgr_params_transport(v, dbg) ==
    IF DebugFails(dbg, v) THEN OtherError("json")
    ELSE IF ~from_value(McumgrParamsRsp, v) THEN OtherError("unexpected answer from device")
    ELSE Done

os_info_transport(v, dbg) ==
    IF DebugFails(dbg, v) THEN OtherError("json")
    ELSE IF get_rc(v).some /\ ~IsZero(get_rc(v).rc) THEN DeviceError(get_rc(v).rc)
    ELSE IF ~from_value(OsInfoRsp, v) THEN OtherError("unexpected answer from device")
    ELSE Done

bootloader_info_transport(v, dbg) ==
    IF DebugFails(dbg, v) THEN OtherError("json")
    ELSE IF get_rc(v).some /\ ~IsZero(get_rc(v).rc) THEN DeviceError(get_rc(v).rc)
    ELSE IF ~from_value(BootloaderInfoRsp, v) THEN OtherError("unexpected answer from device")
    ELSE Done

reset_transport(v, dbg) ==
    IF DebugFails(dbg, v) THEN OtherError("json")
    ELSE IF Has(v, KeyRc) /\ Get(v, KeyRc).t = "int" /\ ~IsZero(Get(v, KeyRc).v)
        THEN DeviceError(Get(v, KeyRc).v)
    ELSE Done

stat_transport(v, dbg) ==
    IF DebugFails(dbg, v) THEN OtherError("json")
    ELSE IF ~from_value(FsStatRsp, v) THEN OtherError("unexpected answer from device")
    ELSE IF ~IsZero(TypedRc(v)) THEN DeviceError(TypedRc(v))
    ELSE Done

stat_list_transport(v, dbg) ==
    IF DebugFails(dbg, v) THEN OtherError("json")
    ELSE IF ~from_value(StatListRsp, v) THEN OtherError("unexpected answer from device")
    ELSE IF ~IsZero(TypedRc(v)) THEN DeviceError(TypedRc(v))
    ELSE Done

settings_read_transport(v, dbg) ==
    IF DebugFails(dbg, v) THEN OtherError("json")
    ELSE IF ~from_value(SettingsReadRsp, v) THEN OtherError("unexpected answer from device")
    ELSE IF ~IsZero(TypedRc(v)) THEN DeviceError(TypedRc(v))
    ELSE Done

settings_write_transport(v, dbg) ==
    IF DebugFails(dbg, v) THEN OtherError("json")
    ELSE IF settings_get_rc(v).some /\ ~IsZero(settings_get_rc(v).rc)
        THEN DeviceError(settings_get_rc(v).rc)
    ELSE Done

\* shell.rs shell_exec, lines 54-68: rc is the command's exit code, a field of
\* the result
shell_exec(q, h, v, dbg) ==
    IF ~check_answer(q, h) THEN OtherError("wrong answer types")
    ELSE IF DebugFails(dbg, v) THEN OtherError("json")
    ELSE IF ~from_value(ShellExecRsp, v) THEN OtherError("unexpected answer from device")
    ELSE Done

shell_exec_transport(v, dbg) ==
    IF DebugFails(dbg, v) THEN OtherError("json")
    ELSE IF ~from_value(ShellExecRsp, v) THEN OtherError("unexpected answer from device")
    ELSE Done

\* serde_cbor::to_vec(&ShellExecReq { argv }): the map {"argv": [text, ..]}, for
\* strings of fewer than 24 bytes and fewer than 24 of them
RECURSIVE CborTexts(_)
CborTexts(strings) ==
    IF strings = << >> THEN << >>
    ELSE << 96 + Len(Head(strings)) >> \o Head(strings) \o CborTexts(Tail(strings))

ShellExecReq(argv) ==
    << 161, 100, 97, 114, 103, 118 >> \o << 128 + Len(argv) >> \o CborTexts(argv)

\* stat.rs stat_read and stat_read_transport
KeyName   == << 110, 97, 109, 101 >>
KeyFields == << 102, 105, 101, 108, 100, 115 >>
StatReadRsp == {Field(KeyName, "String", TRUE), Field(KeyFields, "HashMap<String, i64>", FALSE),
                Field(KeyRc, "i32", FALSE)}

stat_read(q, h, v, dbg) ==
    IF ~check_answer(q, h) THEN OtherError("wrong answer types")
    ELSE IF DebugFails(dbg, v) THEN OtherError("json")
    ELSE IF ~from_value(StatReadRsp, v) THEN OtherError("unexpected answer from device")
    ELSE IF ~IsZero(TypedRc(v)) THEN DeviceError(TypedRc(v))
    ELSE Done

stat_read_transport(v, dbg) ==
    IF DebugFails(dbg, v) THEN OtherError("json")
    ELSE IF ~from_value(StatReadRsp, v) THEN OtherError("unexpected answer from device")
    ELSE IF ~IsZero(TypedRc(v)) THEN DeviceError(TypedRc(v))
    ELSE Done

\* settings.rs settings_delete, settings_commit, settings_load, settings_save and
\* their Transport forms: the response is handled as settings_write handles it
settings_delete(q, h, v, dbg) == settings_write(q, h, v, dbg)
settings_commit(q, h, v, dbg) == settings_write(q, h, v, dbg)
settings_load(q, h, v, dbg)   == settings_write(q, h, v, dbg)
settings_save(q, h, v, dbg)   == settings_write(q, h, v, dbg)
settings_delete_transport(v, dbg) == settings_write_transport(v, dbg)
settings_commit_transport(v, dbg) == settings_write_transport(v, dbg)
settings_load_transport(v, dbg)   == settings_write_transport(v, dbg)
settings_save_transport(v, dbg)   == settings_write_transport(v, dbg)

(***************************************************************************)
(* serde_cbor::to_vec of a request struct: a map of the fields in the      *)
(* order of their declaration, a field that is skipped not counted.        *)
(***************************************************************************)
\* the initial byte of an item of the major type with its argument n, 0 <= n < 2^31
CborArg(major, n) ==
    IF n < 24 THEN << major * 32 + n >>
    ELSE IF n < 256 THEN << major * 32 + 24, n >>
    ELSE IF n < 65536 THEN << major * 32 + 25 >> \o WriteU16BE(n)
    ELSE << major * 32 + 26 >> \o WriteU16BE(n \div 65536) \o WriteU16BE(n % 65536)

CborText(chars)  == CborArg(3, Len(chars)) \o chars
CborBytes(bytes) == CborArg(2, Len(bytes)) \o bytes

\* a map of the pairs given, each a key and an encoded value
RECURSIVE CborPairs(_)
CborPairs(pairs) ==
    IF pairs = << >> THEN << >>
    ELSE CborText(Head(pairs)[1]) \o Head(pairs)[2] \o CborPairs(Tail(pairs))

CborMap(pairs) == CborArg(5, Len(pairs)) \o CborPairs(pairs)

\* the arguments of the adapters: the text s for every string, the byte 1 for
\* a value, and every optional argument given (the text s, the number 8) or not
ArgText == << 115 >>
ArgVal  == << 1 >>
Optional(key, given, value) == IF given THEN << << key, value >> >> ELSE << >>

\* the body each adapter encodes, the same in its two forms
RequestBody(name, given) ==
    CASE name = "echo"            -> CborMap(<< << << 100 >>, CborText(ArgText) >> >>)
      [] name = "taskstat"        -> CborMap(<< >>)
      [] name = "mcumgr_params"   -> CborMap(<< >>)
      [] name = "os_info"         ->
            CborMap(Optional(<< 102, 111, 114, 109, 97, 116 >>, given, CborText(ArgText)))
      [] name = "bootloader_info" ->
            CborMap(Optional(<< 113, 117, 101, 114, 121 >>, given, CborText(ArgText)))
      [] name = "reset"           -> << >>
      [] name = "stat"            -> CborMap(<< << KeyName, CborText(ArgText) >> >>)
      [] name = "stat_list"       -> CborMap(<< >>)
      [] name = "stat_read"       -> CborMap(<< << KeyName, CborText(ArgText) >> >>)
      [] name = "settings_read"   ->
            CborMap(<< << KeyName, CborText(ArgText) >> >>
                    \o Optional(<< 109, 97, 120, 95, 115, 105, 122, 101 >>, given, CborArg(0, 8)))
      [] name = "settings_write"  ->
            CborMap(<< << KeyName, CborText(ArgText) >>, << KeyVal, CborBytes(ArgVal) >> >>)
      [] name = "settings_delete" -> CborMap(<< << KeyName, CborText(ArgText) >> >>)
      [] name = "settings_commit" -> CborMap(<< >>)
      [] name = "settings_load"   -> CborMap(<< >>)
      [] name = "settings_save"   -> CborMap(<< >>)

\* each adapter's request in its serial form: op, group and command id
AdapterRequest ==
    [echo            |-> new_req(OpWrite, GroupDefault, 0),
     taskstat        |-> new_req(OpRead,  GroupDefault, 2),
     mcumgr_params   |-> new_req(OpRead,  GroupDefault, 6),
     os_info         |-> new_req(OpRead,  GroupDefault, 7),
     bootloader_info |-> new_req(OpRead,  GroupDefault, 8),
     reset           |-> new_req(OpWrite, GroupDefault, 5),
     stat            |-> new_req(OpRead,  GroupFs, 1),
     stat_list       |-> new_req(OpRead,  GroupStat, 1),
     stat_read       |-> new_req(OpRead,  GroupStat, 0),
     settings_read   |-> new_req(OpRead,  GroupConfig, 0),
     settings_write  |-> new_req(OpWrite, GroupConfig, 0),
     settings_delete |-> new_req(OpWrite, GroupConfig, 0),
     settings_commit |-> new_req(OpWrite, GroupConfig, 0),
     settings_load   |-> new_req(OpRead,  GroupConfig, 0),
     settings_save   |-> new_req(OpWrite, GroupConfig, 0),
     shell_exec      |-> new_req(OpWrite, GroupShell, 0)]

\* a table in which the Transport form of settings delete reads
TransportRequestDeleteReads ==
    [AdapterRequest EXCEPT !.settings_delete = new_req(OpRead, GroupConfig, 0)]

\* each adapter's request in its Transport form: what it passes to
\* Transport::transceive
TransportRequest ==
    [echo            |-> new_req(OpWrite, GroupDefault, 0),
     taskstat        |-> new_req(OpRead,  GroupDefault, 2),
     mcumgr_params   |-> new_req(OpRead,  GroupDefault, 6),
     os_info         |-> new_req(OpRead,  GroupDefault, 7),
     bootloader_info |-> new_req(OpRead,  GroupDefault, 8),
     reset           |-> new_req(OpWrite, GroupDefault, 5),
     stat            |-> new_req(OpRead,  GroupFs, 1),
     stat_list       |-> new_req(OpRead,  GroupStat, 1),
     stat_read       |-> new_req(OpRead,  GroupStat, 0),
     settings_read   |-> new_req(OpRead,  GroupConfig, 0),
     settings_write  |-> new_req(OpWrite, GroupConfig, 0),
     settings_delete |-> new_req(OpWrite, GroupConfig, 0),
     settings_commit |-> new_req(OpWrite, GroupConfig, 0),
     settings_load   |-> new_req(OpRead,  GroupConfig, 0),
     settings_save   |-> new_req(OpWrite, GroupConfig, 0),
     shell_exec      |-> new_req(OpWrite, GroupShell, 0)]

AdapterNames == DOMAIN AdapterRequest
AdapterForms == {"serial", "transport"}

SerialForm(name, q, h, v, dbg) ==
    CASE name = "echo"            -> echo(q, h, v, dbg)
      [] name = "taskstat"        -> taskstat(q, h, v, dbg)
      [] name = "mcumgr_params"   -> mcumgr_params(q, h, v, dbg)
      [] name = "os_info"         -> os_info(q, h, v, dbg)
      [] name = "bootloader_info" -> bootloader_info(q, h, v, dbg)
      [] name = "reset"           -> reset(q, h, v, dbg)
      [] name = "stat"            -> stat(q, h, v, dbg)
      [] name = "stat_list"       -> stat_list(q, h, v, dbg)
      [] name = "settings_read"   -> settings_read(q, h, v, dbg)
      [] name = "settings_write"  -> settings_write(q, h, v, dbg)
      [] name = "stat_read"       -> stat_read(q, h, v, dbg)
      [] name = "settings_delete" -> settings_delete(q, h, v, dbg)
      [] name = "settings_commit" -> settings_commit(q, h, v, dbg)
      [] name = "settings_load"   -> settings_load(q, h, v, dbg)
      [] name = "settings_save"   -> settings_save(q, h, v, dbg)
      [] name = "shell_exec"      -> shell_exec(q, h, v, dbg)

TransportForm(name, v, dbg) ==
    CASE name = "echo"            -> echo_transport(v, dbg)
      [] name = "taskstat"        -> taskstat_transport(v, dbg)
      [] name = "mcumgr_params"   -> mcumgr_params_transport(v, dbg)
      [] name = "os_info"         -> os_info_transport(v, dbg)
      [] name = "bootloader_info" -> bootloader_info_transport(v, dbg)
      [] name = "reset"           -> reset_transport(v, dbg)
      [] name = "stat"            -> stat_transport(v, dbg)
      [] name = "stat_list"       -> stat_list_transport(v, dbg)
      [] name = "settings_read"   -> settings_read_transport(v, dbg)
      [] name = "settings_write"  -> settings_write_transport(v, dbg)
      [] name = "stat_read"       -> stat_read_transport(v, dbg)
      [] name = "settings_delete" -> settings_delete_transport(v, dbg)
      [] name = "settings_commit" -> settings_commit_transport(v, dbg)
      [] name = "settings_load"   -> settings_load_transport(v, dbg)
      [] name = "settings_save"   -> settings_save_transport(v, dbg)
      [] name = "shell_exec"      -> shell_exec_transport(v, dbg)

\* the response bodies a device answers with, as CBOR bytes:
\*   {}
\*   {"rc": 0}
\*   {"rc": 3}
\*   {"rc": -1}
\*   {"rc": 4294967296}
\*   {"rc": "x"}
\*   {"r": "h"}
\*   {"r": "h", "rc": 3}
\*   {"output": "o"}
\*   {"output": "o", "rc": 3}
\*   {"len": 5}
\*   {"len": 5, "rc": 3}
\*   {"buf_size": 1, "buf_count": 2}
\*   {"buf_size": 1, "buf_count": 2, "rc": 3}
\*   {"tasks": {}}
\*   {"tasks": {}, "rc": 3}
\*   {"name": "s"}
\*   {"name": "s", "rc": 3}
\*   {h'': 0}, a byte string as key
\*   3, not a map
\*   a map cut short
AdapterBodies ==
    { << 160 >>,
      << 161, 98, 114, 99, 0 >>,
      << 161, 98, 114, 99, 3 >>,
      << 161, 98, 114, 99, 32 >>,
      << 161, 98, 114, 99, 27, 0, 0, 0, 1, 0, 0, 0, 0 >>,
      << 161, 98, 114, 99, 97, 120 >>,
      << 161, 97, 114, 97, 104 >>,
      << 162, 97, 114, 97, 104, 98, 114, 99, 3 >>,
      << 161, 102, 111, 117, 116, 112, 117, 116, 97, 111 >>,
      << 162, 102, 111, 117, 116, 112, 117, 116, 97, 111, 98, 114, 99, 3 >>,
      << 161, 99, 108, 101, 110, 5 >>,
      << 162, 99, 108, 101, 110, 5, 98, 114, 99, 3 >>,
      << 162, 104, 98, 117, 102, 95, 115, 105, 122, 101, 1, 105, 98, 117, 102, 95, 99, 111, 117, 110, 116, 2 >>,
      << 163, 104, 98, 117, 102, 95, 115, 105, 122, 101, 1, 105, 98, 117, 102, 95, 99, 111, 117, 110, 116, 2, 98, 114, 99, 3 >>,
      << 161, 101, 116, 97, 115, 107, 115, 160 >>,
      << 162, 101, 116, 97, 115, 107, 115, 160, 98, 114, 99, 3 >>,
      << 161, 100, 110, 97, 109, 101, 97, 115 >>,
      << 162, 100, 110, 97, 109, 101, 97, 115, 98, 114, 99, 3 >>,
      << 161, 64, 0 >>,
      << 3 >>,
      << 161, 98 >> }

\* the response headers: the correlated one and one with another seq
AdapterHeaders(q) ==
    LET h == [q EXCEPT !.op = ExpectedOp(q.op)]
    IN  {h, [h EXCEPT !.seq = U8(q.seq + 1)]}

InitAdapter ==
    /\ IdleSeq
    /\ IdleCodec
    /\ IdleSerial
    /\ IdleAdapter
    /\ IdleFs
    /\ IdleUdp
    /\ IdleHist
    /\ IdleEnc

\* an adapter is called and sends its request
AdapterCall(name, form, dbg, given) ==
    /\ adapter.stage = "off"
    /\ LET q    == IF form = "serial" THEN AdapterRequest[name] ELSE TransportRequest[name]
           body == RequestBody(name, given)
       IN  adapter' = [NoAdapter EXCEPT !.stage = "called", !.name = name, !.form = form,
                        !.dbg = dbg, !.entry = "lib", !.transmitted = TRUE,
                        !.request_body = body,
                        !.hdr = [q EXCEPT !.seq = 7, !.len = Len(body)]]
    /\ UNCHANGED notAdapter

\* the command lines a user may give, as byte strings: none, ls, ls -l
ShellArgvs == { << >>, << << 108, 115 >> >>, << << 108, 115 >>, << 45, 108 >> >> }

\* shell exec, entered through the command line (main.rs lines 466-478 on a
\* serial device, 682-694 on a UDP one) or by a call of the library's
\* shell_exec or shell_exec_transport (shell.rs lines 40-93).  The command
\* line handlers return an error for an empty command; the functions encode and
\* transmit whatever argv they are given.
ShellCommand(entry, form, argv, dbg) ==
    /\ adapter.stage = "off"
    /\ adapter' =
        IF entry = "main" /\ argv = << >>
        THEN [NoAdapter EXCEPT !.stage = "returned", !.name = "shell_exec", !.form = form,
                    !.dbg = dbg, !.entry = entry, !.argv = argv,
                    !.out = OtherError("No command provided")]
        ELSE [NoAdapter EXCEPT !.stage = "called", !.name = "shell_exec", !.form = form,
                    !.dbg = dbg, !.entry = entry, !.argv = argv,
                    !.transmitted = TRUE, !.request_body = ShellExecReq(argv),
                    !.hdr = [(IF form = "serial" THEN AdapterRequest
                              ELSE TransportRequest)["shell_exec"] EXCEPT
                                !.seq = 7, !.len = Len(ShellExecReq(argv))]]
    /\ UNCHANGED notAdapter

\* the exchange: a response header and body arrive; the body is decoded from CBOR
AdapterResponse(h, bytes) ==
    /\ adapter.stage = "called"
    /\ LET d == CborDecode(bytes) IN
        adapter' = [adapter EXCEPT !.stage = "answered", !.rsp = h, !.wire = bytes,
                        !.decoded = d.ok,
                        !.body = IF d.ok THEN d.value ELSE NoBody]
    /\ UNCHANGED notAdapter

\* the adapter returns: a failed exchange is passed on (the Transport forms get
\* an error from the transport for an uncorrelated response), else the adapter's
\* own handling of the response
AdapterReturn ==
    /\ adapter.stage = "answered"
    /\ LET a == adapter
           correlated == Correlate(a.hdr,
                            [NoReturn EXCEPT !.kind = "ok", !.hdr = a.rsp]).kind = "ok"
           out == IF ~a.decoded THEN OtherError("transceive")
                  ELSE IF a.form = "serial"
                      THEN SerialForm(a.name, a.hdr, a.rsp, a.body, a.dbg)
                  ELSE IF ~correlated THEN OtherError("transceive")
                  ELSE TransportForm(a.name, a.body, a.dbg)
       IN  adapter' = [adapter EXCEPT !.stage = "returned", !.out = out]
    /\ UNCHANGED notAdapter

NextAdapter ==
    \/ \E name \in AdapterNames \ {"shell_exec"}, form \in AdapterForms,
          dbg \in BOOLEAN, given \in BOOLEAN :
            AdapterCall(name, form, dbg, given)
    \/ \E entry \in {"main", "lib"}, form \in AdapterForms, argv \in ShellArgvs,
          dbg \in BOOLEAN :
            ShellCommand(entry, form, argv, dbg)
    \/ \E bytes \in AdapterBodies :
         \E h \in AdapterHeaders(adapter.hdr) : AdapterResponse(h, bytes)
    \/ AdapterReturn

SpecAdapter == InitAdapter /\ [][NextAdapter]_vars

\* the adapter returned on a correlated, decoded response
Answered ==
    /\ adapter.stage = "returned"
    /\ adapter.decoded
    /\ check_answer(adapter.hdr, adapter.rsp)

\* the response map has an integer rc that is not 0
HasNonZeroRc(v) == Has(v, KeyRc) /\ Get(v, KeyRc).t = "int" /\ ~IsZero(Get(v, KeyRc).v)
\* the response has rc = 0, or no rc key at all
HasZeroOrNoRc(v) ==
    \/ ~Has(v, KeyRc)
    \/ Get(v, KeyRc).t = "int" /\ IsZero(Get(v, KeyRc).v)
\* the keys of a response map are text names, as in every SMP response
TextKeys(v) == v.t = "map" => \A i \in 1..Len(v.v) : v.v[i][1].t = "text"

\* C9: every adapter, in its serial and its Transport form, returns a device
\* error carrying rc when the correlated response map has an integer rc that is
\* not 0: never Ok, never another kind of error.
NonZeroRcIsDeviceError ==
    (Answered /\ TextKeys(adapter.body) /\ HasNonZeroRc(adapter.body))
        => (adapter.out.kind = "device" /\ adapter.out.rc = Get(adapter.body, KeyRc).v)

\* C10: reset and reset_transport return Ok when the correlated response map has
\* rc = 0 or no rc key, and a device error carrying rc when rc is an integer
\* other than 0.
ResetRcPolicy ==
    (Answered /\ adapter.name = "reset" /\ TextKeys(adapter.body)) =>
        /\ HasZeroOrNoRc(adapter.body) => adapter.out.kind = "ok"
        /\ HasNonZeroRc(adapter.body) =>
            (adapter.out.kind = "device" /\ adapter.out.rc = Get(adapter.body, KeyRc).v)

\* reset_transport has returned a device error for an rc beyond 32 bits
ResetRcWitness ==
    /\ Answered
    /\ adapter.name = "reset"
    /\ adapter.form = "transport"
    /\ HasNonZeroRc(adapter.body)
    /\ ~FitsI32(Get(adapter.body, KeyRc).v)
    /\ adapter.out.kind = "device"

(***************************************************************************)
(* fs.rs: file upload and download, in the serial form (upload, download:  *)
(* a port opened by the call) and in the Transport form (upload_transport, *)
(* download_transport: a transport the caller opened and keeps).  The      *)
(* device is the environment: it keeps one file and answers each request   *)
(* with fields of its own choosing.                                        *)
(***************************************************************************)
MaxTransfers == 2
MaxRequests  == 5

\* Option<u32>
None    == [some |-> FALSE, v |-> 0]
Some(n) == [some |-> TRUE, v |-> n]

\* u32 values are kept as their 32-bit pattern read as a signed integer: v below
\* 2^31 and v - 2^32 from there on, so that -1 is u32::MAX
U32Lt(a, b) == IF (a < 0) = (b < 0) THEN a < b ELSE b < 0

\* a + b on u32: the wrapped sum, and whether it wrapped (the values used are
\* below 2^30 or above 2^32 - 2^30, so that the sum of the two patterns is the
\* pattern of the wrapped sum)
AddU32(a, b) ==
    [value |-> a + b,
     overflow |-> (a < 0 /\ b < 0) \/ ((a < 0 \/ b < 0) /\ a + b >= 0)]

LocalFiles == { << >>, << 1 >>, << 1, 2, 3 >>, << 1, 2, 3, 4 >> }
FsForms    == {"serial", "transport"}
Profiles   == {"debug", "release"}          \* overflow checks on, off
FsSpecs    == [initial_timeout_s : {60}, subsequent_timeout_ms : {200, 500}, mtu : {1, 2, 3, 32}]
DeviceFiles == { [exists |-> FALSE, bytes |-> << >>], [exists |-> TRUE, bytes |-> << 9 >>] }

\* fs.rs line 384 and line 457: the timeout the Transport forms set
TransportSubsequentMs == 200

\* transfer.rs open_port, SerialTransport::new and UdpTransport::new: the timeout
\* of a port or transport just opened, in milliseconds
initial_timeout(specs) == specs.initial_timeout_s * 1000

\* the timeout the loops set after a response: specs.subsequent_timeout_ms in
\* the serial forms, 200 in the Transport forms
subsequent_timeout(form, specs) ==
    IF form = "serial" THEN specs.subsequent_timeout_ms ELSE TransportSubsequentMs

NoFsRequest  == [off |-> 0, data |-> << >>, len |-> None]
NoFsResponse == [kind |-> "none", off |-> 0, data |-> << >>, len |-> None,
                 rc |-> CborInt(FALSE, Zeros(8))]

\* the rc values of a device's error answers: 3, and 4294967296
DeviceRcs == { CborInt(FALSE, << 0, 0, 0, 0, 0, 0, 0, 3 >>),
               CborInt(FALSE, << 0, 0, 0, 1, 0, 0, 0, 0 >>) }

\* the checks without from_value
response_error_by_get_rc(rsp) ==
    IF rsp.kind = "fail" THEN "transceive"
    ELSE IF ~IsZero(TruncI32(rsp.rc)) THEN "Error from device"
    ELSE ""

\* lines 91-108 and 195-212, 339-356 and 433-450: what ends the transfer: a
\* failed exchange or an uncorrelated header; an rc that get_rc gives as other
\* than 0; a body that from_value does not take as the response struct, whose
\* rc is an i32
response_error(rsp) ==
    IF rsp.kind = "fail" THEN "transceive"
    ELSE IF ~IsZero(TruncI32(rsp.rc)) THEN "Error from device"
    ELSE IF ~FitsI32(rsp.rc) THEN "unexpected answer from device"
    ELSE ""

\* upload, lines 171-183 and 418-430: the request for the chunk at offset
\* chunk_size: `offset + chunk_size as u32 > total_len` on u32, the sum wrapped
\* as a build without overflow checks does; mtu is a usize, here below 2^32
upload_chunk_size(mtu, offset, total_len) ==
    IF U32Lt(total_len, AddU32(offset, mtu).value) THEN total_len - offset ELSE mtu

\* lines 172 and 176, 419 and 423: the panic of the sum in a build with overflow
\* checks, and of the slice file_data[offset..offset + chunk_size] that ends
\* after the file; the empty text when neither happens
upload_panic(mtu, offset, total_len, profile) ==
    LET chunk_size == upload_chunk_size(mtu, offset, total_len) IN
    IF AddU32(offset, mtu).overflow /\ profile = "debug"
        THEN "attempt to add with overflow"
    ELSE IF chunk_size < 0 \/ offset + chunk_size > total_len
        THEN "range end index out of range"
    ELSE ""

\* the request with len on every chunk
upload_request_len_always(file_data, mtu, offset) ==
    LET total_len  == Len(file_data)
        chunk_size == upload_chunk_size(mtu, offset, total_len)
    IN  [off  |-> offset,
         data |-> SubSeq(file_data, offset + 1, offset + chunk_size),
         len  |-> Some(total_len)]

upload_request(file_data, mtu, offset) ==
    LET total_len  == Len(file_data)
        chunk_size == upload_chunk_size(mtu, offset, total_len)
    IN  [off  |-> offset,
         data |-> SubSeq(file_data, offset + 1, offset + chunk_size),
         len  |-> IF offset = 0 THEN Some(total_len) ELSE None]

\* the loop test made after the first pass only
upload_continues_after_first(offset, total_len) == offset = 0 \/ U32Lt(offset, total_len)

\* the loop test taken with <= in place of <
upload_continues_inclusive(offset, total_len) == ~U32Lt(total_len, offset)

\* upload, line 169 and line 416: while offset < total_len
upload_continues(offset, total_len) == U32Lt(offset, total_len)

\* download, lines 110-132 and 359-381: what one response does to the loop:
\* the total is taken from a response to a request at offset 0 only, the data is
\* appended, the cursor is the response's off plus the data length
download_step(offset, total_len, file_data, rsp, profile) ==
    LET total  == IF offset = 0 /\ rsp.len.some THEN rsp.len ELSE total_len
        sum    == AddU32(rsp.off, Len(rsp.data))
        cursor == sum.value
    IN  [panic     |-> sum.overflow /\ profile = "debug",
         total_len |-> total,
         file_data |-> file_data \o rsp.data,
         offset    |-> cursor,
         break     |-> \/ total.some /\ ~U32Lt(cursor, total.v)
                       \/ rsp.data = << >>]

\* the device's file after an upload request: a chunk at off 0 starts the file
\* anew, a chunk at the end of the file is appended
Stored(store, q) ==
    IF q.off = 0 THEN [exists |-> TRUE, bytes |-> q.data]
    ELSE IF store.exists /\ q.off = Len(store.bytes)
        THEN [store EXCEPT !.bytes = store.bytes \o q.data]
    ELSE store

\* the answers of a device to upload request q: the next expected off, other
\* offs, an rc other than 0 (3, and 4294967296), and no usable answer at all
CompliantUploadAnswer(q) == [NoFsResponse EXCEPT !.kind = "ok", !.off = q.off + Len(q.data)]
UploadAnswers(q) ==
    { [NoFsResponse EXCEPT !.kind = "ok", !.off = o] :
        o \in {0, q.off, q.off + 1, q.off + Len(q.data), -1} }
    \cup { [NoFsResponse EXCEPT !.kind = "rc", !.rc = rc] : rc \in DeviceRcs }
    \cup { [NoFsResponse EXCEPT !.kind = "fail"] }

\* the bytes of the device's file from off on, at most n of them
DeviceChunk(store, off, n) ==
    IF off < 0 \/ off >= Len(store.bytes) THEN << >>
    ELSE SubSeq(store.bytes, off + 1, Min(off + n, Len(store.bytes)))

\* the answers of a device to a download request at off: the next one or two
\* bytes with the total length on the chunk at off 0; the same with the length
\* on the other chunks instead; no data; an off one past the requested one; an
\* off of u32::MAX; an rc other than
\* 0 (3, and 4294967296); no usable answer at all
DownloadAnswers(store, q) ==
    LET total == Some(Len(store.bytes))
        first == IF q.off = 0 THEN total ELSE None
        other == IF q.off = 0 THEN None ELSE total
        ok(o, n, l) == [NoFsResponse EXCEPT !.kind = "ok", !.off = o,
                                            !.data = DeviceChunk(store, q.off, n), !.len = l]
    IN  { ok(q.off, 1, first), ok(q.off, 2, first), ok(q.off, 1, other),
          ok(q.off, 0, first), ok(q.off + 1, 1, first), ok(-1, 1, None),
          [NoFsResponse EXCEPT !.kind = "fail"] }
        \cup { [NoFsResponse EXCEPT !.kind = "rc", !.rc = rc] : rc \in DeviceRcs }

\* a device that has the file serves its bytes at the requested off, with the
\* total length on the chunk at off 0; one that has no such file answers with an rc
CompliantDownloadAnswer(store, q, rsp) ==
    IF ~store.exists THEN rsp.kind = "rc"
    ELSE /\ rsp.kind = "ok"
         /\ rsp.off = q.off
         /\ rsp.data # << >> \/ q.off >= Len(store.bytes)
         /\ q.off = 0 => rsp.len = Some(Len(store.bytes))
         /\ rsp.len.some => rsp.len.v = Len(store.bytes)

\* the state before any transfer, for a form, the specs and the device's file
FsNew(form, specs, store) ==
    [stage |-> "Idle", form |-> form, specs |-> specs,
     \* the timeout of the open port or transport in ms, 0 with no port open
     timeout |-> IF form = "serial" THEN 0 ELSE initial_timeout(specs),
     transfers |-> 0, kind |-> "", file_data |-> << >>,
     offset |-> 0, total_len |-> None, nreq |-> 0, nrsp |-> 0,
     request |-> NoFsRequest, response |-> NoFsResponse,
     first |-> NoFsResponse,      \* the first response of the transfer
     err |-> "",
     store |-> store, compliant |-> TRUE, increasing |-> TRUE,
     \* the local file, when the transfer before this one was an upload
     \* that returned Ok from a device answering as a compliant one
     uploaded |-> None]

InitFs ==
    /\ IdleSeq
    /\ IdleCodec
    /\ IdleSerial
    /\ IdleAdapter
    /\ IdleEnc
    /\ IdleHist
    /\ IdleUdp
    /\ \E form \in FsForms, specs \in FsSpecs, store \in DeviceFiles :
        xfer = FsNew(form, specs, store)

\* lines 150-167 and 397-414 (upload), 58-73 and 316-330 (download): the serial
\* forms open the port, the Transport forms take the transport as it is
FsStart(kind, file) ==
    /\ xfer.stage = "Idle"
    /\ xfer.transfers < MaxTransfers
    /\ xfer' = [xfer EXCEPT
            !.stage = "LoopHead", !.kind = kind,
            !.file_data = IF kind = "upload" THEN file ELSE << >>,
            !.offset = 0,
            !.total_len = IF kind = "upload" THEN Some(Len(file)) ELSE None,
            !.nreq = 0, !.nrsp = 0, !.request = NoFsRequest, !.response = NoFsResponse,
            !.first = NoFsResponse, !.err = "",
            !.timeout = IF xfer.form = "serial" THEN initial_timeout(xfer.specs)
                        ELSE xfer.timeout,
            !.transfers = xfer.transfers + 1,
            !.compliant = TRUE, !.increasing = TRUE]
    /\ UNCHANGED notFs

\* upload, lines 169-195 and 416-438: the loop test passes and the request for
\* the chunk at offset is sent; its response is read under the timeout in force
UploadRequest(profile) ==
    /\ xfer.stage = "LoopHead" /\ xfer.kind = "upload"
    /\ upload_continues(xfer.offset, xfer.total_len.v)
    /\ xfer.nreq < MaxRequests
    /\ LET panic == upload_panic(xfer.specs.mtu, xfer.offset, xfer.total_len.v, profile)
       IN  xfer' = IF panic # ""
                   THEN [xfer EXCEPT !.stage = "Panicked", !.err = panic]
                   ELSE [xfer EXCEPT
                            !.stage = "Awaiting",
                            !.request = upload_request(xfer.file_data, xfer.specs.mtu,
                                                       xfer.offset),
                            !.nreq = xfer.nreq + 1]
    /\ UNCHANGED notFs

\* upload, lines 169 and 222-225, 416 and 461-464: the loop test fails
UploadComplete ==
    /\ xfer.stage = "LoopHead" /\ xfer.kind = "upload"
    /\ ~upload_continues(xfer.offset, xfer.total_len.v)
    /\ xfer' = [xfer EXCEPT !.stage = "Done"]
    /\ UNCHANGED notFs

\* download, lines 75-91 and 332-344: the request at offset is sent
DownloadRequest ==
    /\ xfer.stage = "LoopHead" /\ xfer.kind = "download"
    /\ xfer.nreq < MaxRequests
    /\ xfer' = [xfer EXCEPT
            !.stage = "Awaiting",
            !.request = [NoFsRequest EXCEPT !.off = xfer.offset],
            !.nreq = xfer.nreq + 1]
    /\ UNCHANGED notFs

\* what the device's answer rsp to the request in flight does on the device's
\* side: the file it keeps, and whether it has answered as a compliant device
\* and with growing offs so far
Answered_by_device(rsp) ==
    LET q == xfer.request IN
    [xfer EXCEPT
        !.response = rsp,
        !.nrsp = xfer.nrsp + 1,
        !.first = IF xfer.nreq = 1 THEN rsp ELSE xfer.first,
        !.store = IF xfer.kind = "upload" THEN Stored(xfer.store, q) ELSE xfer.store,
        !.compliant = /\ xfer.compliant
                      /\ IF xfer.kind = "upload" THEN rsp = CompliantUploadAnswer(q)
                         ELSE CompliantDownloadAnswer(xfer.store, q, rsp),
        !.increasing = /\ xfer.increasing
                       /\ rsp.kind = "ok" => U32Lt(q.off, rsp.off)]

FsAnswers ==
    IF xfer.kind = "upload" THEN UploadAnswers(xfer.request)
    ELSE DownloadAnswers(xfer.store, xfer.request)

\* lines 91-107 and 195-211, 339-356 and 433-450: a failed exchange, an
\* uncorrelated header, a body that does not decode, or an rc other than 0
FsResponseError(rsp) ==
    /\ xfer.stage = "Awaiting"
    /\ response_error(rsp) # ""
    /\ xfer' = [Answered_by_device(rsp) EXCEPT
            !.stage = "Failed",
            !.err = response_error(rsp)]
    /\ UNCHANGED notFs

\* upload, lines 213-219 and 452-458
UploadResponse(rsp) ==
    /\ xfer.stage = "Awaiting" /\ xfer.kind = "upload"
    /\ response_error(rsp) = ""
    /\ LET offset == rsp.off IN
        xfer' = [Answered_by_device(rsp) EXCEPT
            !.stage = "LoopHead",
            !.offset = offset,
            !.timeout = IF U32Lt(0, offset)
                        THEN subsequent_timeout(xfer.form, xfer.specs)
                        ELSE xfer.timeout]
    /\ UNCHANGED notFs

\* download, lines 110-135 and 359-384; the sum of line 119 and line 368 panics
\* on overflow in a build with overflow checks and wraps in one without
DownloadResponse(rsp, profile) ==
    /\ xfer.stage = "Awaiting" /\ xfer.kind = "download"
    /\ response_error(rsp) = ""
    /\ LET s == download_step(xfer.offset, xfer.total_len, xfer.file_data, rsp, profile)
           a == Answered_by_device(rsp)
       IN  xfer' = IF s.panic
                   THEN [a EXCEPT !.stage = "Panicked", !.err = "attempt to add with overflow"]
                   ELSE [a EXCEPT
                            !.stage = IF s.break THEN "Done" ELSE "LoopHead",
                            !.total_len = s.total_len,
                            !.file_data = s.file_data,
                            !.offset = s.offset,
                            !.timeout = IF s.break THEN xfer.timeout
                                        ELSE subsequent_timeout(xfer.form, xfer.specs)]
    /\ UNCHANGED notFs

\* the function returns; the serial forms drop their port
FsReturn ==
    /\ xfer.stage \in {"Done", "Failed"}
    /\ xfer' = [xfer EXCEPT
            !.stage = "Idle",
            !.timeout = IF xfer.form = "serial" THEN 0 ELSE xfer.timeout,
            !.kind = "", !.file_data = << >>, !.offset = 0, !.total_len = None,
            !.nreq = 0, !.nrsp = 0, !.request = NoFsRequest, !.response = NoFsResponse,
            !.first = NoFsResponse,
            !.err = "", !.compliant = TRUE, !.increasing = TRUE,
            !.uploaded = IF xfer.kind = "upload" /\ xfer.stage = "Done" /\ xfer.compliant
                         THEN Some(xfer.file_data) ELSE None]
    /\ UNCHANGED notFs

NextFs ==
    \/ \E file \in LocalFiles : FsStart("upload", file)
    \/ FsStart("download", << >>)
    \/ \E profile \in Profiles : UploadRequest(profile)
    \/ UploadComplete
    \/ DownloadRequest
    \/ \E rsp \in FsAnswers : FsResponseError(rsp)
    \/ \E rsp \in FsAnswers : UploadResponse(rsp)
    \/ \E rsp \in FsAnswers, profile \in Profiles : DownloadResponse(rsp, profile)
    \/ FsReturn

SpecFs == InitFs /\ [][NextFs]_vars

FsEnded == xfer.stage \in {"Done", "Failed", "Panicked"}

UploadAwaiting   == xfer.kind = "upload" /\ xfer.stage = "Awaiting"

\* C11: against a compliant device, an upload followed by a download of the same
\* remote path ends with the download returning Ok and the downloaded bytes
\* being exactly the uploaded file, for every file length and every mtu >= 1.
UploadThenDownloadYieldsFile ==
    (FsEnded /\ xfer.kind = "download" /\ xfer.compliant /\ xfer.uploaded.some)
        => (xfer.stage = "Done" /\ xfer.file_data = xfer.uploaded.v)

\* C12 as amended: an upload request carries len exactly when its off is 0 (the
\* first request, and a later one that follows a response with off 0), len is
\* then the total file size, and the off of every request after the first is the
\* off of the response before it.
UploadLenAtOffsetZero ==
    UploadAwaiting =>
        /\ xfer.request.len.some <=> xfer.request.off = 0
        /\ xfer.request.len.some => xfer.request.len.v = Len(xfer.file_data)
        /\ xfer.nreq = 1 => xfer.request.off = 0
        /\ xfer.nreq > 1 => xfer.request.off = xfer.response.off

\* the third request of an upload with mtu 2 is at off 1, the off the device
\* returned, and carries no len
UploadLenWitness ==
    /\ UploadAwaiting
    /\ xfer.specs.mtu = 2
    /\ xfer.nreq = 3
    /\ xfer.response.off = 1
    /\ xfer.request.off = 1
    /\ ~xfer.request.len.some

\* C12 as stated: len is on the first request of an upload, where it is the
\* total file size, and on no later request; the off of every request after the
\* first is the off of the response before it.
UploadLenOnFirstRequestOnly ==
    UploadAwaiting =>
        /\ xfer.nreq = 1 => xfer.request.len = Some(Len(xfer.file_data))
        /\ xfer.nreq > 1 => ~xfer.request.len.some
        /\ xfer.nreq > 1 => xfer.request.off = xfer.response.off

DownloadStopsOnTotalOrEmpty ==
    xfer.kind = "download" =>
        LET reached == xfer.total_len.some /\ ~U32Lt(xfer.offset, xfer.total_len.v) IN
        /\ xfer.stage # "Panicked"
        /\ xfer.stage = "Done" => (reached \/ xfer.response.data = << >>)
        /\ (xfer.stage = "LoopHead" /\ xfer.nreq >= 1) =>
                ~(reached \/ xfer.response.data = << >>)
        /\ (xfer.nreq >= 1 /\ xfer.stage # "Awaiting") => xfer.total_len = xfer.first.len
        /\ (xfer.nreq > 1 /\ xfer.stage = "Awaiting") => xfer.total_len = xfer.first.len

\* C15: the response to the first request of every transfer is read under the
\* initial timeout, whatever was transferred before on the same transport.
FirstReadUnderInitialTimeout ==
    (xfer.stage = "Awaiting" /\ xfer.nreq = 1)
        => xfer.timeout = initial_timeout(xfer.specs)

\* C16: the response to every request after the first of an upload or a
\* download is read under the configured subsequent_timeout_ms, in the serial
\* and in the Transport forms.
LaterReadsUnderSubsequentTimeout ==
    (xfer.stage = "Awaiting" /\ xfer.nreq > 1)
        => xfer.timeout = xfer.specs.subsequent_timeout_ms

(***************************************************************************)
(* transfer.rs encode_request, lines 456-474, one pass of the while loop   *)
(* at a time, for every linelength a caller may pass: the function takes   *)
(* linelength as it is given.  linelength - 4 is a subtraction on usize:   *)
(* below 4 it panics in a build with overflow checks and wraps in one      *)
(* without.                                                                *)
(***************************************************************************)
MaxLines == 24

EncLineLengths == 0..8
EncBodies      == { << >>, << 160 >>, << 161, 97, 100, 97, 104 >> }
EncOps         == {OpRead, OpWrite}

\* lines 429-453: the base64 text of the request
Base64Data(op, group, id, body, seq_id) ==
    LET request_header == [new_req(op, group, id) EXCEPT
                              !.seq = seq_id, !.len = header_len(Len(body))]
    IN  B64Encode(Message(serialize(request_header) \o body))

\* line 468: min(linelength - 4, totlen - written); a wrapped linelength - 4 is
\* at least 2^64 - 4, above every totlen - written
write_len(linelength, totlen, written, profile) ==
    IF linelength >= 4 THEN [panic |-> FALSE, n |-> Min(linelength - 4, totlen - written)]
    ELSE IF profile = "debug" THEN [panic |-> TRUE, n |-> 0]
    ELSE [panic |-> FALSE, n |-> totlen - written]

InitEnc ==
    /\ IdleSeq
    /\ IdleCodec
    /\ IdleSerial
    /\ IdleAdapter
    /\ IdleFs
    /\ IdleHist
    /\ IdleUdp
    /\ \E linelength \in EncLineLengths, op \in EncOps, body \in EncBodies :
        enc = [stage |-> "Loop", linelength |-> linelength,
               op |-> op, body |-> body,
               base64_data |-> Base64Data(op, GroupDefault, 5, body, 7),
               written |-> 0, data |-> << >>, lines |-> 0]

\* lines 459-472: one line
EncodeLine(profile) ==
    /\ enc.stage = "Loop"
    /\ enc.written < Len(enc.base64_data)
    /\ enc.lines < MaxLines
    /\ LET totlen == Len(enc.base64_data)
           w == write_len(enc.linelength, totlen, enc.written, profile)
       IN  enc' = IF w.panic
                  THEN [enc EXCEPT !.stage = "Panicked"]
                  ELSE [enc EXCEPT
                          !.data = enc.data
                                   \o (IF enc.written = 0 THEN SofMarker ELSE ContMarker)
                                   \o SubSeq(enc.base64_data, enc.written + 1, enc.written + w.n)
                                   \o << Newline >>,
                          !.written = enc.written + w.n,
                          !.lines = enc.lines + 1]
    /\ UNCHANGED notEnc

\* lines 459 and 474: the loop test fails, Ok((data, request_header))
EncodeReturn ==
    /\ enc.stage = "Loop"
    /\ enc.written >= Len(enc.base64_data)
    /\ enc' = [enc EXCEPT !.stage = "Returned"]
    /\ UNCHANGED notEnc

NextEnc ==
    \/ \E profile \in Profiles : EncodeLine(profile)
    \/ EncodeReturn

SpecEnc == InitEnc /\ [][NextEnc]_vars

\* C17: a linelength below 6 is rejected by encode_request with an error and
\* without a byte emitted: no line is produced, the loop does not run on without
\* end (linelength = 4) and linelength - 4 does not underflow (linelength < 4).
SmallLinelengthRejected ==
    enc.linelength < 6 =>
        /\ enc.stage # "Panicked"
        /\ enc.stage # "Returned"
        /\ enc.data = << >>
        /\ enc.lines <= Len(enc.base64_data)

\* C19: shell exec with an empty argv returns an error before any request is
\* transmitted, from the serial and the UDP command line and from a call of
\* shell_exec or shell_exec_transport.
EmptyArgvNeverTransmitted ==
    (adapter.name = "shell_exec" /\ adapter.argv = << >>) =>
        /\ ~adapter.transmitted
        /\ adapter.stage = "returned"
        /\ adapter.out.kind = "error"

\* the device answered with the correct response to the call in lines of two
\* base64 characters
TwoCharReply == wire # << >> /\ wire = Frame(Message(GoodPayload(req)), 6)

\* C18: with linelength 6 the request goes out in lines of exactly two base64
\* characters (the text has an even length), and a response that comes in in
\* lines of two characters is reassembled into its header and body and passes
\* the length and CRC checks.
TwoCharChunksBothWays ==
    /\ (pc # "Idle" /\ req.linelength = 6) =>
        /\ Len(req.data) % 5 = 0
        /\ \A i \in 1..Len(req.data) : (req.data[i] = Newline) <=> (i % 5 = 0)
    /\ (Ended /\ TwoCharReply) =>
        (ret.checked /\ ret.data = GoodPayload(req))

(***************************************************************************)
(* transfer.rs UdpTransport: one transport instance, one transceive call   *)
(* at a time.  The socket hands out whole datagrams in the order of their  *)
(* arrival; the device is the environment and sends datagrams of its own   *)
(* choosing while a call waits.                                            *)
(***************************************************************************)
MaxDatagrams == 2

UdpOps    == {OpRead, OpWrite, OpReadRsp}
UdpBodies == { << >>, << 160 >> }

\* a counter that stops at the last value of a u8
next_seq_saturating(seq) == [ret |-> seq, new |-> IF seq = 255 THEN 255 ELSE seq + 1]

\* a counter that does not advance
next_seq_stuck(seq) == [ret |-> seq, new |-> seq]

\* lines 229-233: the value before, and the wrapped value after
next_seq(seq) == [ret |-> seq, new |-> U8(seq + 1)]

\* lines 308-311: header and body
UdpPacket(op, group, id, body, seq) ==
    encode_header(op, group, id, header_len(Len(body)), seq) \o body

UdpError(err) == [NoReturn EXCEPT !.kind = "err", !.err = err]

\* line 321: the receive buffer
UdpBufLen == 4096

\* lines 321-325: recv_from fills the buffer with the datagram, as far as it
\* has room; what it returns is &buf[..len]
recv_from(datagram) == SubSeq(datagram, 1, Min(Len(datagram), UdpBufLen))

\* a body cut by the len field of the header
udp_cbor_data_by_header_len(buf) == SubSeq(buf, 9, Min(Len(buf), 8 + ReadU16BE(SubSeq(buf, 3, 4))))

\* line 356: &buf[8..len]
udp_cbor_data(buf) == SubSeqFrom(buf, 9)

\* a body that is always parsed
udp_body_parsed(cbor_data) == CborDecode(cbor_data)

\* lines 359-366: no bytes make an empty map, any others are parsed
udp_body(cbor_data) ==
    IF cbor_data = << >>
        THEN [ok |-> TRUE, value |-> [t |-> "map", v |-> << >>]]
    ELSE CborDecode(cbor_data)

\* lines 329-368: what transceive makes of the bytes it received
udp_response(op, group, seq, datagram) ==
    IF Len(datagram) < 8 THEN UdpError("Response too short")
    ELSE LET h == decode_header(datagram) IN
         IF h.kind # "ok" THEN UdpError("decode_header")
         ELSE IF h.hdr.seq # seq THEN UdpError("Sequence mismatch")
         ELSE IF op \notin {OpRead, OpWrite} THEN UdpError("unexpected request op type")
         ELSE IF h.hdr.op # ExpectedOp(op) \/ h.hdr.group # group
             THEN UdpError("wrong response types")
         ELSE LET body == udp_body(udp_cbor_data(datagram))
              IN  IF ~body.ok THEN UdpError("Failed to parse CBOR response")
                  ELSE [NoReturn EXCEPT !.kind = "ok", !.hdr = h.hdr, !.body = body.value]

\* the response a device owes to the call in progress, with body b
UdpGoodDatagram(u, b) == UdpPacket(u.op + 1, u.group, u.id, b, u.sent_seq)

\* the datagrams a device may send while a call waits
UdpDatagrams(u) ==
    { UdpGoodDatagram(u, << 160 >>),
      UdpGoodDatagram(u, << >>),
      UdpPacket(u.op + 1, u.group, u.id, << 160 >>, U8(u.sent_seq + 1)),   \* another seq
      UdpPacket(u.op, u.group, u.id, << 160 >>, u.sent_seq),               \* the request's op
      UdpPacket(u.op + 1, GroupImage, u.id, << 160 >>, u.sent_seq),        \* another group
      UdpPacket(u.op + 1, 10, u.id, << 160 >>, u.sent_seq),                \* no group
      UdpPacket(u.op + 1, u.group, u.id, << 161, 98 >>, u.sent_seq),       \* a map cut short
      encode_header(u.op + 1, u.group, u.id, 0, u.sent_seq)
          \o << 161, 98, 114, 99, 0 >>,                                    \* len 0 before {"rc": 0}
      encode_header(u.op + 1, u.group, u.id, 5, u.sent_seq),               \* len 5 before no body
      << 11, 0, 0 >> }                                                     \* three bytes

\* lines 203-208: the address host:port resolves to, and an address that is
\* not the device's
DeviceAddr == "192.0.2.1:1337"
OtherAddr  == "192.0.2.66:4242"
NoAddr     == ""

\* lines 221-226: the transport as new leaves it, seq 0; limit is the number
\* of calls the caller is going to make, seqs the seq of each call made;
\* srcs are the source addresses of the datagrams waiting in the socket, src
\* the one recv_from gave with the datagram received
UdpNew(limit) ==
    [stage |-> "Idle", seq |-> 0, calls |-> 0, limit |-> limit, seqs |-> << >>,
     addr |-> DeviceAddr, srcs |-> << >>, src |-> NoAddr,
     sends |-> 0, recvs |-> 0,        \* calls of send_to and of recv_from so far
     op |-> 0, group |-> 0, id |-> 0, sent_seq |-> 0, prev_seq |-> -1,
     packet |-> << >>, inbox |-> << >>, received |-> << >>, ret |-> NoReturn]

InitUdp ==
    /\ IdleSeq
    /\ IdleCodec
    /\ IdleSerial
    /\ IdleAdapter
    /\ IdleFs
    /\ IdleEnc
    /\ IdleHist
    /\ udp = UdpNew(MaxCalls)

\* lines 305-319: the next seq, the packet, send_to
UdpCall(op, group, id, body) ==
    /\ udp.stage = "Idle"
    /\ udp.calls < udp.limit
    /\ LET s == next_seq(udp.seq) IN
        udp' = [udp EXCEPT
            !.stage = "Awaiting", !.seq = s.new, !.calls = udp.calls + 1,
            !.seqs = Append(udp.seqs, s.ret),
            !.sends = udp.sends + 1,
            !.op = op, !.group = group, !.id = id,
            !.sent_seq = s.ret,
            !.prev_seq = IF udp.calls = 0 THEN -1 ELSE udp.sent_seq,
            !.packet = UdpPacket(op, group, id, body, s.ret),
            !.received = << >>, !.src = NoAddr, !.ret = NoReturn]
    /\ UNCHANGED <<last_err, notUdp>>

\* a socket connected to addr: only datagrams from addr are queued
socket_accepts_connected(addr, src) == src = addr

\* line 210: the socket is bound to 0.0.0.0:0 and never connected, so a
\* datagram from any source address is queued for recv_from
socket_accepts(addr, src) == TRUE

\* a datagram from src arrives at the socket
UdpArrive(datagram, src) ==
    /\ udp.stage = "Awaiting"
    /\ Len(udp.inbox) < MaxDatagrams
    /\ udp' = IF socket_accepts(udp.addr, src)
                 THEN [udp EXCEPT !.inbox = Append(udp.inbox, datagram),
                                  !.srcs = Append(udp.srcs, src)]
              ELSE udp
    /\ UNCHANGED <<last_err, notUdp>>

\* a datagram of the device arrives at the socket
UdpDeviceSend(datagram) == UdpArrive(datagram, udp.addr)

\* a datagram of some other sender arrives at the socket
UdpOtherSend(datagram) == UdpArrive(datagram, OtherAddr)

\* lines 322-368: recv_from gives the oldest datagram, whole
UdpReceive ==
    /\ udp.stage = "Awaiting"
    /\ udp.inbox # << >>
    /\ udp' = [udp EXCEPT
            !.stage = "Returned",
            !.recvs = udp.recvs + 1,
            !.received = recv_from(Head(udp.inbox)),
            !.inbox = Tail(udp.inbox),
            !.src = Head(udp.srcs),
            !.srcs = Tail(udp.srcs),
            !.ret = udp_response(udp.op, udp.group, udp.sent_seq, recv_from(Head(udp.inbox)))]
    /\ UNCHANGED <<last_err, notUdp>>

\* lines 323-325: the read timeout passes with no datagram
UdpTimeout ==
    /\ udp.stage = "Awaiting"
    /\ udp.inbox = << >>
    /\ udp' = [udp EXCEPT !.stage = "Returned",
                          !.recvs = udp.recvs + 1,
                          !.ret = UdpError("Failed to receive UDP response")]
    /\ UNCHANGED <<last_err, notUdp>>

\* the caller has the result; the transport is ready for the next call
UdpReturn ==
    /\ udp.stage = "Returned"
    /\ udp' = [udp EXCEPT !.stage = "Idle"]
    /\ last_err' = udp.ret.err
    /\ UNCHANGED notUdp

NextUdp ==
    \/ \E op \in UdpOps, body \in UdpBodies : UdpCall(op, GroupDefault, 5, body)
    \/ udp.stage = "Awaiting" /\ \E datagram \in UdpDatagrams(udp) : UdpDeviceSend(datagram)
    \/ UdpReceive
    \/ UdpTimeout
    \/ UdpReturn

SpecUdp == InitUdp /\ [][NextUdp]_vars

(***************************************************************************)
(* The Transport capability: a serial transport or a UDP one.              *)
(***************************************************************************)
InitTransport == InitSerial \/ InitUdp

NextTransport ==
    \/ udp.stage = "off" /\ NextSerial
    \/ NextUdp

SpecTransport == InitTransport /\ [][NextTransport]_vars

\* the call before this one failed on the response's seq
AfterSeqMismatch == last_err \in {"wrong sequence number", "Sequence mismatch"}

\* C20: a transceive that fails because the response's seq is not the request's
\* leaves nothing of that response behind, and the next transceive on the same
\* transport, given the response it is owed, returns Ok under a seq of its own,
\* on the serial and on the UDP transport.
RetryAfterSeqMismatch ==
    /\ (pc = "Failed" /\ ret.err = "wrong sequence number") => rx = << >>
    /\ (Ended /\ AfterSeqMismatch /\ req.op \in {OpRead, OpWrite}
            /\ wire = Frame(Message(GoodPayload(req)), 128)) =>
        /\ pc = "Delivered"
        /\ ret.hdr.seq = req.seq
        /\ allocs[Len(allocs)] # allocs[Len(allocs) - 1]
    /\ (udp.stage = "Returned" /\ udp.ret.err = "Sequence mismatch") =>
        /\ Len(udp.received) >= 8
        /\ udp.received[7] # udp.sent_seq
    /\ (udp.stage = "Returned" /\ AfterSeqMismatch /\ udp.op \in {OpRead, OpWrite}
            /\ udp.received \in {UdpGoodDatagram(udp, b) : b \in UdpBodies}) =>
        /\ udp.ret.kind = "ok"
        /\ udp.ret.hdr.seq = udp.sent_seq
        /\ udp.sent_seq # udp.prev_seq

\* a serial call has delivered the response it was owed, after a call that
\* failed on the response's seq
RetryWitness ==
    /\ pc = "Delivered"
    /\ AfterSeqMismatch
    /\ calls = 2
    /\ wire = Frame(Message(GoodPayload(req)), 128)
    /\ ret.hdr.seq = req.seq

\* C21: when the bytes at the start of the response are not 06 09, the step
\* that reads them fails with a read error, has accumulated nothing and has
\* taken at most the first two bytes from the port; and when the bytes at the
\* start of a later chunk are not 04 14, the step fails with a read error too.
WrongMarkerIsFramingError ==
    [][ /\ (pc = "AwaitingFirstByte" /\ Len(rx) >= 2 /\ SubSeq(rx, 1, 2) # << 6, 9 >>) =>
            /\ pc' = "Failed"
            /\ ret'.kind = "err"
            /\ ret'.err = "read error"
            /\ result' = << >>
            /\ Len(rx) - Len(rx') \in {1, 2}
            /\ rx' = SubSeqFrom(rx, Len(rx) - Len(rx') + 1)
        /\ (pc = "Reassembling" /\ Len(rx) >= 2 /\ SubSeq(rx, 1, 2) # << 4, 20 >>) =>
            /\ pc' = "Failed"
            /\ ret'.kind = "err"
            /\ ret'.err = "read error"
            /\ result' = result
      ]_vars

\* a response that began 06 08 has been refused, and all of it but these two
\* bytes is still in the port
WrongStartWitness ==
    /\ pc = "Failed"
    /\ ret.err = "read error"
    /\ bytes_read = 0
    /\ Len(wire) > 2
    /\ SubSeq(wire, 1, 2) = << 6, 8 >>
    /\ rx = SubSeqFrom(wire, 3)

\* the UDP call in progress has returned on a datagram it received
UdpReturnedOn == udp.stage = "Returned" /\ udp.received # << >>

\* C22: UdpTransport::transceive answers a datagram of fewer than 8 bytes
\* with an error and takes no header and no body from it; from a datagram of
\* 8 bytes or more that it accepts, the header is the UDP decoding of the
\* first 8 bytes and the body is what bytes 8 up to the received length hold,
\* whatever the len field says.
ShortDatagramRejected ==
    /\ (UdpReturnedOn /\ Len(udp.received) < 8) =>
        /\ udp.ret.kind = "err"
        /\ udp.ret.err = "Response too short"
        /\ udp.ret.hdr = NoReturn.hdr
        /\ udp.ret.body = NoBody
    /\ (UdpReturnedOn /\ Len(udp.received) >= 8) =>
        /\ udp.ret.err # "Response too short"
        /\ udp.ret.kind = "ok" =>
            /\ udp.ret.hdr = decode_header(SubSeq(udp.received, 1, 8)).hdr
            /\ \/ Len(udp.received) = 8 /\ udp.ret.body.v = << >>
               \/ /\ Len(udp.received) > 8
                  /\ udp.ret.body = CborDecode(SubSeq(udp.received, 9, Len(udp.received))).value

\* a datagram of three bytes has been refused
ShortDatagramWitness ==
    /\ UdpReturnedOn
    /\ Len(udp.received) = 3
    /\ udp.ret.err = "Response too short"

\* the datagram received answers the call in progress: its seq is the
\* request's, its op the response op of the request's, its group the request's
UdpCorrelated ==
    /\ UdpReturnedOn
    /\ Len(udp.received) >= 8
    /\ udp.op \in {OpRead, OpWrite}
    /\ LET h == decode_header(udp.received) IN
        /\ h.kind = "ok"
        /\ h.hdr.seq = udp.sent_seq
        /\ h.hdr.op = ExpectedOp(udp.op)
        /\ h.hdr.group = udp.group

\* C23: a correlated UDP response of exactly 8 bytes makes transceive return
\* Ok with that header and an empty CBOR map as the body.
EmptyUdpBodyIsEmptyMap ==
    (UdpCorrelated /\ Len(udp.received) = 8) =>
        /\ udp.ret.kind = "ok"
        /\ udp.ret.err = ""
        /\ udp.ret.hdr = decode_header(udp.received).hdr
        /\ udp.ret.body = [t |-> "map", v |-> << >>]

\* a call has returned Ok on a response of a header alone
EmptyUdpBodyWitness ==
    /\ UdpCorrelated
    /\ udp.received = UdpGoodDatagram(udp, << >>)
    /\ udp.ret.kind = "ok"

(***************************************************************************)
(* One UdpTransport used for more calls than a u8 has values: the caller   *)
(* sends one request after the other, and the device answers it, answers   *)
(* with three bytes, or stays silent.                                      *)
(***************************************************************************)
MaxUdpCalls == 258

InitUdpSeq ==
    /\ IdleSeq
    /\ IdleCodec
    /\ IdleSerial
    /\ IdleAdapter
    /\ IdleFs
    /\ IdleEnc
    /\ IdleHist
    /\ udp = UdpNew(MaxUdpCalls)

NextUdpSeq ==
    \/ UdpCall(OpRead, GroupDefault, 0, << >>)
    \/ udp.stage = "Awaiting" /\ udp.inbox = << >>
          /\ \E datagram \in {UdpGoodDatagram(udp, << 160 >>), << 11, 0, 0 >>} :
                UdpDeviceSend(datagram)
    \/ UdpReceive
    \/ UdpTimeout
    \/ UdpReturn

SpecUdpSeq == InitUdpSeq /\ [][NextUdpSeq]_vars

\* the calls made so far: one seq each
UdpCallsMade == udp.stage # "off" /\ udp.calls >= 1 /\ Len(udp.seqs) = udp.calls

\* C24: the k-th transceive call of a UdpTransport carries seq (k - 1) mod 256
\* in its packet, whether the calls before it returned Ok or an error, and no
\* call fewer than 256 calls before it carried the same seq.
UdpSeqIsCallCount ==
    (udp.stage # "off" /\ udp.calls >= 1) =>
        /\ Len(udp.seqs) = udp.calls
        /\ udp.seqs[udp.calls] = (udp.calls - 1) % 256
        /\ udp.packet[7] = (udp.calls - 1) % 256
        /\ \A i \in 1..(udp.calls - 1) :
              udp.calls - i < 256 => udp.seqs[i] # udp.seqs[udp.calls]

\* the 257th call has gone out with seq 0 again, after a call that failed
UdpSeqWrapWitness ==
    /\ UdpCallsMade
    /\ udp.calls = 257
    /\ udp.stage = "Awaiting"
    /\ udp.packet[7] = 0
    /\ udp.seqs[256] = 255
    /\ last_err # ""

\* C25: one transceive call writes its request once and tries one reception:
\* on the UDP transport every call makes one send_to and one recv_from, and
\* on the serial transport the port is written only by the step that sends
\* the request of a new call, and a call that failed (a read timeout among
\* the failures) goes back to the caller and nowhere else.
OneSendPerTransceive ==
    /\ [](udp.stage # "off" =>
            /\ udp.sends = udp.calls
            /\ udp.recvs = IF udp.stage = "Awaiting" THEN udp.calls - 1 ELSE udp.calls)
    /\ [][ /\ (tx' # tx /\ tx' # << >>) => (pc = "Sending" /\ tx' = req.data)
           /\ (pc' = "Sending" /\ pc # "Sending") => (pc = "Idle" /\ calls' = calls + 1)
           /\ pc = "Sending" => pc' \in {"Sending", "AwaitingFirstByte"}
           /\ pc = "Failed" => (pc' \in {"Failed", "Idle"} /\ tx' = tx)
       ]_vars

\* a serial call has failed on a read timeout with its request still unread
\* in the port
TimedOutOnceWitness ==
    /\ pc = "Failed"
    /\ ret.err = "timed out"
    /\ tx = req.data
    /\ tx # << >>

(***************************************************************************)
(* fs.rs upload, line 184 and line 431: serde_cbor::to_vec(&req), the body *)
(* handed to the transport.                                                *)
(***************************************************************************)
\* the remote path of the transfers: "/f"
RemotePath == << 47, 102 >>

\* nmp_hdr.rs FsUploadReq: name, off, data, and len when it is Some
FsUploadReq(name, q) ==
    CborArg(5, IF q.len.some THEN 4 ELSE 3)
        \o CborText(<< 110, 97, 109, 101 >>) \o CborText(name)
        \o CborText(<< 111, 102, 102 >>) \o CborArg(0, q.off)
        \o CborText(<< 100, 97, 116, 97 >>) \o CborBytes(q.data)
        \o (IF q.len.some
            THEN CborText(<< 108, 101, 110 >>) \o CborArg(0, q.len.v)
            ELSE << >>)

\* C26: no request body that upload hands to the transport is longer than mtu
\* bytes, the whole CBOR body counted: name, off, data and len.
UploadBodyWithinMtu ==
    UploadAwaiting =>
        Len(FsUploadReq(RemotePath, xfer.request)) <= xfer.specs.mtu

\* the command table: group, id, op
CommandTable ==
    [echo            |-> << GroupDefault, 0, OpWrite >>,
     taskstat        |-> << GroupDefault, 2, OpRead >>,
     reset           |-> << GroupDefault, 5, OpWrite >>,
     stat_list       |-> << GroupStat, 1, OpRead >>,
     stat_read       |-> << GroupStat, 0, OpRead >>,
     stat            |-> << GroupFs, 1, OpRead >>,
     shell_exec      |-> << GroupShell, 0, OpWrite >>,
     settings_read   |-> << GroupConfig, 0, OpRead >>,
     settings_write  |-> << GroupConfig, 0, OpWrite >>,
     settings_delete |-> << GroupConfig, 0, OpWrite >>,
     settings_commit |-> << GroupConfig, 0, OpWrite >>,
     settings_load   |-> << GroupConfig, 0, OpRead >>,
     settings_save   |-> << GroupConfig, 0, OpWrite >>]

\* the request body of the adapter call in progress, decoded
SentBody == CborDecode(adapter.request_body)

\* C27: a request an adapter has sent carries the group, id and op of the
\* command table, in the serial and in the Transport form; the body of
\* settings read has name, that of settings write name and val, that of
\* settings delete name and no val, and that of commit, load and save is an
\* empty map.
AdaptersFollowCommandTable ==
    (adapter.transmitted /\ adapter.name \in DOMAIN CommandTable) =>
        /\ << adapter.hdr.group, adapter.hdr.id, adapter.hdr.op >> = CommandTable[adapter.name]
        /\ adapter.hdr.len = Len(adapter.request_body)
        /\ adapter.name \in {"settings_read", "settings_write", "settings_delete"} =>
            /\ SentBody.ok
            /\ Has(SentBody.value, KeyName)
            /\ Has(SentBody.value, KeyVal) <=> adapter.name = "settings_write"
        /\ adapter.name \in {"settings_commit", "settings_load", "settings_save"} =>
            adapter.request_body = << 160 >>

\* settings delete has been sent in its Transport form
SettingsDeleteSentWitness ==
    /\ adapter.transmitted
    /\ adapter.name = "settings_delete"
    /\ adapter.form = "transport"
    /\ adapter.hdr.op = OpWrite
    /\ adapter.request_body = << 161, 100, 110, 97, 109, 101, 97, 115 >>

\* the payload the reading loop has put together, decoded
Decoded == B64Decode(result).bytes

\* the two checks of a decoded payload: the length prefix is the length less
\* two, and the CRC of what lies between the prefix and the last two bytes is
\* those two bytes
LengthHolds(decoded) == Len(decoded) >= 2 /\ ReadU16BE(decoded) = Len(decoded) - 2
CrcHolds(decoded) ==
    /\ Len(decoded) >= 2
    /\ Crc16Xmodem(SubSeq(decoded, 3, Len(decoded) - 2))
            = ReadU16BE(SubSeqFrom(decoded, Len(decoded) - 1))

\* C28: once the whole payload is decoded, the serial transceive delivers the
\* response only if the length prefix and the CRC both hold, and a payload
\* failing one of them is answered with the error wrong chunk length or wrong
\* checksum, its header and body not returned.
ChecksGuardDelivery ==
    [][ pc = "Validating" =>
          /\ pc' = "Delivered" => (LengthHolds(Decoded) /\ CrcHolds(Decoded))
          /\ ~LengthHolds(Decoded) =>
                (pc' = "Failed" /\ ret'.kind = "err" /\ ret'.err = "wrong chunk length")
          /\ (LengthHolds(Decoded) /\ ~CrcHolds(Decoded)) =>
                (pc' = "Failed" /\ ret'.kind = "err" /\ ret'.err = "wrong checksum")
          /\ ~(LengthHolds(Decoded) /\ CrcHolds(Decoded)) =>
                (ret'.hdr = NoReturn.hdr /\ ret'.body = NoBody)
      ]_vars

\* a frame cut after each newline: its chunks, and what follows the last newline
RECURSIVE SplitChunks(_)
SplitChunks(s) ==
    IF s = << >> THEN << >>
    ELSE LET nl == FirstNewline(s, 1) IN
         IF nl = 0 THEN << s >>
         ELSE << SubSeq(s, 1, nl) >> \o SplitChunks(SubSeqFrom(s, nl + 1))

\* what a chunk carries between its marker and its newline
ChunkPayload(c) == SubSeq(c, 3, Len(c) - 1)

RECURSIVE JoinPayloads(_)
JoinPayloads(cs) ==
    IF cs = << >> THEN << >> ELSE ChunkPayload(Head(cs)) \o JoinPayloads(Tail(cs))

\* C29: a frame that encode_request returns is a sequence of chunks, the first
\* beginning 06 09 and the others 04 14, each ending in one newline and
\* carrying between 1 and linelength - 4 bytes of base64 text, none of them
\* 06, 09, 04, 14 or 0a, and the payloads joined are the base64 text of the
\* request.
FrameIsChunked ==
    enc.stage = "Returned" =>
        LET cs == SplitChunks(enc.data) IN
        /\ Len(cs) >= 1
        /\ \A k \in 1..Len(cs) :
            /\ Len(cs[k]) >= 4
            /\ SubSeq(cs[k], 1, 2) = IF k = 1 THEN << 6, 9 >> ELSE << 4, 20 >>
            /\ cs[k][Len(cs[k])] = 10
            /\ Len(ChunkPayload(cs[k])) \in 1..(enc.linelength - 4)
            /\ \A i \in 1..Len(ChunkPayload(cs[k])) :
                    ChunkPayload(cs[k])[i] \notin {6, 9, 4, 20, 10}
        /\ JoinPayloads(cs) = enc.base64_data

(***************************************************************************)
(* The length fields of a request: the len of the header (encode_request   *)
(* line 432, UdpTransport::transceive line 307) and the length prefix of   *)
(* the serial frame (encode_request lines 438-445), for a body given by    *)
(* its length.                                                             *)
(***************************************************************************)
BodyLens == (0..10) \cup {255, 256, 65525, 65526, 65527, 65534, 65535, 65536, 65537, 70000, 131072}

InitLen ==
    /\ IdleSeq
    /\ IdleCodec
    /\ IdleSerial
    /\ IdleAdapter
    /\ IdleFs
    /\ IdleHist
    /\ IdleUdp
    /\ \E transport \in {"serial", "udp"}, op \in EncOps, body_len \in BodyLens :
        enc = [stage |-> "Start", transport |-> transport, op |-> op,
               body_len |-> body_len, hdr_len |-> 0, prefix |-> 0]

\* the header with its len, and for the serial frame the header, the body and
\* the CRC counted into the prefix
EncodeLengths ==
    /\ enc.stage = "Start"
    /\ enc' = [enc EXCEPT
            !.stage = "Encoded",
            !.hdr_len = header_len(enc.body_len),
            !.prefix = IF enc.transport = "serial"
                       THEN chunk_length(8 + enc.body_len + 2) ELSE 0]
    /\ UNCHANGED notEnc

NextLen == EncodeLengths

SpecLen == InitLen /\ [][NextLen]_vars

\* C30: the len field of the header is the length of the body, on the serial
\* and on the UDP transport, and the length prefix of the serial frame is the
\* length of header and body plus 2, for every body length, those of 65536
\* and more included.
LengthFieldsExact ==
    enc.stage = "Encoded" =>
        /\ enc.hdr_len = enc.body_len
        /\ enc.transport = "serial" => enc.prefix = 8 + enc.body_len + 2


(***************************************************************************)
(* The order of the steps of the serial transceive, and the bytes it reads *)
(***************************************************************************)
IsSuffix(s, t) == Len(s) <= Len(t) /\ SubSeqFrom(t, Len(t) - Len(s) + 1) = s

Reading == pc \in {"AwaitingFirstByte", "Reassembling"}
PastSending == pc \in {"AwaitingFirstByte", "Reassembling", "Validating",
                       "Delivered", "Failed", "Panicked"}

\* C31: the serial transceive drains every input byte that was pending, then
\* writes the whole request, then reads the response: the request is written
\* in the one step that leaves the input buffer empty and the loop reset;
\* from then on the input buffer holds only bytes the device sent in answer to
\* this request, the request has been written before any byte is read, and
\* the text accumulated grows only by bytes taken from that input, so no byte
\* that was pending when the call started becomes part of the response.
DrainsThenWritesThenReads ==
    /\ [](PastSending =>
            /\ IsSuffix(rx, wire)
            /\ Len(result) <= Len(wire) - Len(rx)
            /\ tx = req.data \/ (tx = << >> /\ wire # << >>))
    /\ [][/\ (tx' # tx /\ tx' # << >>) =>
                /\ pc = "Sending"
                /\ rx' = << >>
                /\ tx' = req.data
                /\ result' = << >>
          /\ pc = "Sending" => (pc' = "AwaitingFirstByte" /\ tx' = req.data)
          /\ (Len(rx') < Len(rx) /\ pc # "Sending") =>
                /\ Reading
                /\ IsSuffix(rx', rx)
                /\ LET taken == SubSeq(rx, 1, Len(rx) - Len(rx'))
                   IN  \E text \in {<< >>, SubSeqFrom(taken, 3),
                                    SubSeq(taken, 3, Len(taken) - 1)} :
                            result' = result \o text
          /\ (result' # result /\ result' # << >>) => (Reading /\ Len(rx') < Len(rx))]_vars

\* a call that started with bytes pending in the input buffer delivered a response
DrainedCallDelivered == pc = "Delivered" /\ req.pending > 0


(***************************************************************************)
(* The exchanges of a file transfer                                        *)
(***************************************************************************)
\* the response was received and correlated, and carries no rc other than 0
CleanResponse(rsp) == rsp.kind \in {"ok", "rc"} /\ IsZero(rsp.rc)

\* C32: in an upload or a download requests and responses alternate: a request
\* is sent only when every request before it has its response, and the last of
\* them was received, correlated and free of a non-zero rc; at most one
\* request is outstanding, which is the one being awaited; a response that
\* failed, was not correlated or carries a non-zero rc ends the transfer, and
\* a transfer that has ended sends nothing more.
StrictAlternation ==
    /\ [](xfer.nreq - xfer.nrsp = IF xfer.stage = "Awaiting" THEN 1 ELSE 0)
    /\ [][/\ xfer'.nreq = xfer.nreq + 1 =>
                /\ xfer.stage = "LoopHead" /\ xfer'.stage = "Awaiting"
                /\ xfer.nrsp = xfer.nreq
                /\ xfer.nreq > 0 => CleanResponse(xfer.response)
          /\ xfer'.nrsp = xfer.nrsp + 1 =>
                /\ xfer.stage = "Awaiting"
                /\ xfer'.nreq = xfer.nreq
                /\ ~CleanResponse(xfer'.response) => xfer'.stage = "Failed"
          /\ xfer.stage \in {"Done", "Failed", "Panicked"} =>
                /\ xfer'.stage = "Idle"
                /\ xfer'.nreq = 0 /\ xfer'.nrsp = 0]_vars

\* the second response of a transfer carried the rc 4294967296 and ended it
WideRcEndedTransfer ==
    /\ xfer.stage = "Failed"
    /\ xfer.nreq = 2 /\ xfer.nrsp = 2
    /\ xfer.response.kind = "rc" /\ ~FitsI32(xfer.response.rc)


\* a download has taken a response into the assembled file
DownloadIterated ==
    /\ xfer.kind = "download"
    /\ xfer.stage \in {"LoopHead", "Done"}
    /\ xfer.nrsp >= 1

\* C33: in a download the data of each response is placed at the off the
\* response declares and the cursor advances by the length of the data: after
\* every iteration the length of the assembled file is the cursor, and the
\* bytes of the file from off to off + |data| are the data of the response,
\* whatever off the device returned.
DownloadPlacesDataAtOff ==
    DownloadIterated =>
        LET rsp == xfer.response IN
        /\ Len(xfer.file_data) = xfer.offset
        /\ SubSeq(xfer.file_data, rsp.off + 1, rsp.off + Len(rsp.data)) = rsp.data


(***************************************************************************)
(* Termination of the serial transceive.  The caller's thread runs: a step *)
(* of the call that can be taken is taken, each read of the port returning *)
(* a byte or timing out (ReadChunk is enabled with no input as well).      *)
(***************************************************************************)
\* the calls of one request, each linelength
NextSerialLive ==
    \/ \E linelength \in LineLengths :
            Call(OpRead, GroupDefault, 5, << 160 >>, linelength)
    \/ Send
    \/ DeviceReply
    \/ ReadChunk
    \/ Validate
    \/ Return

\* lines 531-559 and 157-176 by what they do to the position of the call: the
\* checks are straight-line code, whatever their outcome
ValidateStep ==
    /\ pc = "Validating"
    /\ pc' \in {"Delivered", "Failed", "Panicked"}
    /\ UNCHANGED <<req, rx, tx, loopVars, calls, wire, COUNTER, allocs, last_err, notSerial>>

SpecSerialLive ==
    /\ InitSerial
    /\ [][NextSerialLive]_vars
    /\ WF_vars(Send)
    /\ WF_vars(ReadChunk)
    /\ WF_pc(ValidateStep)

\* the position of a state in the sequence of the call
PcRank(p) ==
    CASE p = "Idle"              -> 0
      [] p = "Sending"           -> 1
      [] p = "AwaitingFirstByte" -> 2
      [] p = "Reassembling"      -> 3
      [] p = "Validating"        -> 4
      [] OTHER                   -> 5

\* the order of the states of a call, the timeout of a device that stopped
\* sending, and the test that ends the chunk loop
CallSteps ==
    /\ [](pc = "Reassembling" =>
            (expected_len > 0 /\ Len(Decoded) - 2 < expected_len))
    /\ [][/\ pc' # pc =>
                \/ pc \in {"Delivered", "Failed"} /\ pc' = "Idle"
                \/ PcRank(pc') > PcRank(pc) /\ (pc \in {"Idle", "Sending"} => PcRank(pc') = PcRank(pc) + 1)
          /\ (pc \in {"AwaitingFirstByte", "Reassembling"} /\ pc' = "Validating") =>
                Len(B64Decode(result').bytes) - 2 >= expected_len'
          /\ (pc = "Reassembling" /\ rx = << >> /\ pc' # pc) =>
                (pc' = "Failed" /\ ret'.err = "timed out")]_vars

\* C34: every serial transceive call ends in Delivered or Failed when each read
\* returns a byte or times out; the call goes through Idle, Sending,
\* AwaitingFirstByte, Reassembling, Validating and then Delivered or Failed,
\* in this order; a device that stops sending before the declared length is
\* reached gives a timeout failure; the chunk loop is left as soon as the
\* decoded length less 2 reaches the declared length.
CallEndsDeliveredOrFailed ==
    /\ CallSteps
    /\ (pc = "Sending") ~> (pc \in {"Delivered", "Failed"})


(***************************************************************************)
(* Uploads with an mtu that is small and one that is 4294967295, which is  *)
(* written -1 as the u32 values are: the mtu is a usize from the command   *)
(* line, and the chunk computation adds it to the offset as a u32.         *)
(***************************************************************************)
FsSpecsWide == [initial_timeout_s : {60}, subsequent_timeout_ms : {200}, mtu : {2, -1}]

InitFsWide ==
    /\ IdleSeq
    /\ IdleCodec
    /\ IdleSerial
    /\ IdleAdapter
    /\ IdleEnc
    /\ IdleHist
    /\ IdleUdp
    /\ \E form \in FsForms, specs \in FsSpecsWide, store \in DeviceFiles :
        xfer = FsNew(form, specs, store)

SpecFsWide == InitFsWide /\ [][NextFs]_vars

\* the smaller of two u32 values
MinU32(a, b) == IF U32Lt(a, b) THEN a ELSE b

\* C35: in an upload every request carries the bytes [off, off + n) of the
\* local file with n = min(mtu, total_len - off) and off < total_len, whatever
\* off the responses carried: the pass of the loop that follows a response
\* sends such a request, it reads nothing outside the file (no panic of the
\* slice) and the sum off + mtu does not wrap.
UploadChunkWithinFile ==
    [][(/\ xfer.stage = "LoopHead" /\ xfer.kind = "upload"
        /\ xfer' # xfer /\ xfer'.stage # "Done") =>
            LET q     == xfer'.request
                total == Len(xfer.file_data)
                n     == MinU32(xfer.specs.mtu, total - q.off)
            IN  /\ xfer'.stage = "Awaiting"
                /\ q.off = xfer.offset
                /\ 0 <= q.off /\ q.off < total
                /\ q.data = SubSeq(xfer.file_data, q.off + 1, q.off + n)
                /\ ~AddU32(q.off, xfer.specs.mtu).overflow]_vars


\* the response map has an integer rc
HasIntRc(v) == Has(v, KeyRc) /\ Get(v, KeyRc).t = "int"

\* the adapters that test the result of get_rc (os.rs 190, 235, 353, 384;
\* settings.rs 120, 159, 196, 233, 270, 331, 360, 387, 414, 441)
ChecksGetRc == {"os_info", "bootloader_info", "settings_write", "settings_delete",
                "settings_commit", "settings_load", "settings_save"}

\* C36: get_rc keeps an rc that is not 0 apart from 0: for every integer rc of
\* a response map the 32-bit value get_rc returns (os.rs, fs.rs and
\* settings.rs alike) is 0 only when rc is 0, and so an adapter that tests the
\* result of get_rc never returns Ok for a response whose rc is not 0,
\* 4294967296 included.
GetRcPreservesNonZero ==
    (Answered /\ TextKeys(adapter.body) /\ HasIntRc(adapter.body)) =>
        LET rc == Get(adapter.body, KeyRc).v IN
        /\ get_rc(adapter.body).some /\ settings_get_rc(adapter.body).some
        /\ IsZero(get_rc(adapter.body).rc) => IsZero(rc)
        /\ IsZero(settings_get_rc(adapter.body).rc) => IsZero(rc)
        /\ (adapter.name \in ChecksGetRc /\ ~IsZero(rc)) => adapter.out.kind # "ok"


\* an upload of the empty local file is under way or has returned Ok
EmptyUpload(x) == x.kind = "upload" /\ x.file_data = << >> /\ x.stage # "Idle"

\* C37: the upload of an empty local file sends no request and returns Ok: the
\* loop is left at its first test, no request is built and none is awaited,
\* no seq is taken, the timeout stays what it was (for the serial form, what
\* the port was opened with) and the device's file is left as it is.
EmptyUploadSendsNothing ==
    /\ [](EmptyUpload(xfer) =>
            /\ xfer.stage \in {"LoopHead", "Done"}
            /\ xfer.nreq = 0 /\ xfer.nrsp = 0
            /\ xfer.request = NoFsRequest
            /\ xfer.err = ""
            /\ xfer.form = "serial" => xfer.timeout = initial_timeout(xfer.specs))
    /\ [][(EmptyUpload(xfer) \/ EmptyUpload(xfer')) =>
            /\ xfer'.store = xfer.store
            /\ xfer.form = "transport" => xfer'.timeout = xfer.timeout
            /\ COUNTER' = COUNTER /\ allocs' = allocs
            /\ <<pc, tx, udp>>' = <<pc, tx, udp>>
            /\ EmptyUpload(xfer) =>
                    \/ xfer.stage = "LoopHead" /\ xfer'.stage = "Done"
                    \/ xfer.stage = "Done" /\ xfer'.stage = "Idle"]_vars

\* the upload of an empty file has returned Ok as the second transfer, with a
\* file on the device and the timeout of the transport lowered by the first
EmptyUploadReturnedOk ==
    /\ EmptyUpload(xfer) /\ xfer.stage = "Done"
    /\ xfer.transfers = 2
    /\ xfer.store.exists /\ xfer.store.bytes # << >>
    /\ xfer.form = "transport" /\ xfer.timeout = subsequent_timeout("transport", xfer.specs)


(***************************************************************************)
(* The UDP transport on a network where others can send to its socket.     *)
(***************************************************************************)
NextUdpSrc ==
    \/ \E op \in {OpRead, OpWrite} : UdpCall(op, GroupDefault, 5, << 160 >>)
    \/ udp.stage = "Awaiting"
          /\ \E datagram \in {UdpGoodDatagram(udp, << 160 >>), << 11, 0, 0 >>} :
                UdpDeviceSend(datagram)
    \/ udp.stage = "Awaiting"
          /\ \E datagram \in {UdpGoodDatagram(udp, << 161, 98, 114, 99, 0 >>),
                              UdpPacket(udp.op + 1, udp.group, udp.id, << 160 >>,
                                        U8(udp.sent_seq + 1))} :
                UdpOtherSend(datagram)
    \/ UdpReceive
    \/ UdpTimeout
    \/ UdpReturn

SpecUdpSrc == InitUdp /\ [][NextUdpSrc]_vars

\* C38: UdpTransport::transceive returns as the response only a datagram whose
\* source address is the resolved device address the request was sent to; a
\* datagram from another source is never what the caller gets as Ok, whatever
\* seq, op and group it carries.
UdpResponseFromDevice ==
    (udp.stage = "Returned" /\ udp.ret.kind = "ok") =>
        /\ udp.src = udp.addr
        /\ udp.src = DeviceAddr

=============================================================================
